---- MODULE Spec2Model ----
(***************************************************************************)
(* A model of the hytopia-map-compression codec and of the loaders built   *)
(* on it: MapCompressor.compress / createCompressedMap,                    *)
(* MapDecompressor.decompress, the varint primitives of VarintEncoder, the *)
(* entropy wrapper BrotliWrapper, and the MapCompression facade with its   *)
(* loaders.                                                                *)
(*                                                                         *)
(* JavaScript numbers are modelled as tagged records (a finite number,     *)
(* NaN, +/-Infinity or undefined); the 32-bit operators of the source      *)
(* (<<, >>, >>>, &, |, ^) are computed on two's-complement int32 values.   *)
(***************************************************************************)
EXTENDS Integers, Sequences, FiniteSets, TLC

\* F applied to the value of e, which is computed once.
With(e, F(_)) == CHOOSE r \in {F(x) : x \in {e}} : TRUE

\* ------------------------------------------------------------------------
\* JavaScript values
\* ------------------------------------------------------------------------

Num(v) == [k |-> "num", v |-> v]
NaN == [k |-> "nan", v |-> 0]
PosInf == [k |-> "inf", v |-> 1]
NegInf == [k |-> "inf", v |-> -1]
Undefined == [k |-> "undef", v |-> 0]
\* A finite number outside the int32 range, kept only as its sign.  The
\* inputs of the model are bounded so that the encoder never meets one; the
\* decoder can, when it sums the deltas of a garbled stream.
Big(sign) == [k |-> "big", v |-> sign]

MinInt32 == (0 - 2147483647) - 1
MaxInt32 == 2147483646 + 1

\* a + b stays within the int32 range.
AddFits(a, b) == IF b >= 0 THEN a <= MaxInt32 - b ELSE a >= MinInt32 - b

IsNum(a) == a.k = "num"

\* ToNumber: undefined becomes NaN, a number stays what it is.
ToNumber(a) == IF a.k = "undef" THEN NaN ELSE a

\* a - b on numbers (IEEE: NaN is contagious, inf - inf is NaN).
JsSub(a0, b0) ==
  LET a == ToNumber(a0)
      b == ToNumber(b0)
  IN IF a.k = "nan" \/ b.k = "nan" THEN NaN
     ELSE IF a.k = "num" /\ b.k = "num"
          THEN (IF b.v # MinInt32 /\ AddFits(a.v, 0 - b.v) THEN Num(a.v - b.v)
                ELSE Big(IF b.v < 0 THEN 1 ELSE -1))
     ELSE IF a.k = "inf" /\ b.k = "inf"
          THEN (IF a.v = b.v THEN NaN ELSE a)
     ELSE IF a.k = "inf" THEN a
     ELSE IF b.k = "inf" THEN [k |-> "inf", v |-> 0 - b.v]
     ELSE IF a.k = "big" THEN a
     ELSE Big(0 - b.v)

\* a + b on numbers.
JsAdd(a0, b0) ==
  LET a == ToNumber(a0)
      b == ToNumber(b0)
  IN IF a.k = "nan" \/ b.k = "nan" THEN NaN
     ELSE IF a.k = "num" /\ b.k = "num"
          THEN (IF AddFits(a.v, b.v) THEN Num(a.v + b.v)
                ELSE Big(IF a.v < 0 THEN -1 ELSE 1))
     ELSE IF a.k = "inf" /\ b.k = "inf"
          THEN (IF a.v = b.v THEN a ELSE NaN)
     ELSE IF a.k = "inf" THEN a
     ELSE IF b.k = "inf" THEN b
     ELSE IF a.k = "big" THEN a
     ELSE b

\* a < b on numbers (false when either is NaN).
JsLess(a0, b0) ==
  LET a == ToNumber(a0)
      b == ToNumber(b0)
  IN IF a.k = "nan" \/ b.k = "nan" THEN FALSE
     ELSE IF a.k = "num" /\ b.k = "num" THEN a.v < b.v
     ELSE IF a.k = b.k THEN a.v < b.v
     ELSE IF a.k = "inf" THEN a.v < 0
     ELSE IF b.k = "inf" THEN b.v > 0
     ELSE IF a.k = "big" THEN a.v < 0
     ELSE b.v > 0

\* Math.min / Math.max: NaN if either argument is NaN.
MathMin(a0, b0) ==
  LET a == ToNumber(a0)
      b == ToNumber(b0)
  IN IF a.k = "nan" \/ b.k = "nan" THEN NaN
     ELSE IF JsLess(b, a) THEN b ELSE a

MathMax(a0, b0) ==
  LET a == ToNumber(a0)
      b == ToNumber(b0)
  IN IF a.k = "nan" \/ b.k = "nan" THEN NaN
     ELSE IF JsLess(a, b) THEN b ELSE a

\* Truthiness of a number: 0, NaN and undefined are falsy.
Truthy(a) == \/ a.k = "inf"
             \/ a.k = "big"
             \/ (a.k = "num" /\ a.v # 0)

\* a || b
JsOr(a, b) == IF Truthy(a) THEN a ELSE b

\* ToInt32: NaN, the infinities and undefined become 0.  Finite numbers of
\* the model are kept within the int32 range by the input bounds.
ToInt32(a) == IF a.k = "num" THEN a.v ELSE 0

\* ------------------------------------------------------------------------
\* 32-bit integer operators (two's complement, as JavaScript computes them)
\* ------------------------------------------------------------------------

Pow2(n) == 2 ^ n

\* v << s : the shift count is taken modulo 32; the bits below 31 - s keep
\* their weight times 2^s and bit 31 - s becomes the sign bit.
Shl32(v, s) ==
  LET n == s % 32
  IN IF n = 0 THEN v
     ELSE (IF n = 31 THEN 0 ELSE (v % Pow2(31 - n)) * Pow2(n))
          + (IF (v \div Pow2(31 - n)) % 2 = 1 THEN (0 - Pow2(30)) - Pow2(30) ELSE 0)

\* v >> s (sign-propagating), 0 <= s <= 31.
Sar32(v, s) == IF s % 32 = 31 THEN (v \div Pow2(30)) \div 2
               ELSE v \div Pow2(s % 32)

\* v >>> 1 : the result is below 2^31.
Shr1(v) == IF v >= 0 THEN v \div 2
           ELSE ((v \div 2) + Pow2(30)) + Pow2(30)

\* v >>> s for 1 <= s <= 31.
Shr32(v, s) == Shr1(v) \div Pow2((s % 32) - 1)

Bit(op, p, q) ==
  CASE op = "and" -> p * q
    [] op = "or"  -> IF p + q > 0 THEN 1 ELSE 0
    [] op = "xor" -> (p + q) % 2

\* The operation on the n low bits of a and b, halving the width.
RECURSIVE BitOp(_, _, _, _)
BitOp(op, a, b, n) ==
  IF a = 0 /\ b = 0 THEN 0
  ELSE IF n = 1 THEN Bit(op, a % 2, b % 2)
  ELSE LET h == n \div 2
       IN BitOp(op, a % Pow2(h), b % Pow2(h), h)
          + (Pow2(h) * BitOp(op, a \div Pow2(h), b \div Pow2(h), n - h))

Lo16(v) == v % 65536
Hi16(v) == (v \div 65536) % 65536
Join32(hi, lo) == ((IF hi >= 32768 THEN hi - 65536 ELSE hi) * 65536) + lo

Op32(op, a, b) ==
  Join32(BitOp(op, Hi16(a), Hi16(b), 16), BitOp(op, Lo16(a), Lo16(b), 16))

And32(a, b) == Op32("and", a, b)
Or32(a, b) == Op32("or", a, b)
Xor32(a, b) == Op32("xor", a, b)

\* ------------------------------------------------------------------------
\* Buffers: a Buffer is a sequence of bytes; offsets are 0-based.
\* ------------------------------------------------------------------------

\* Buffer.allocUnsafe(size): `fill` stands for the bytes the allocator left
\* in the memory.
allocUnsafe(size, fill) == [i \in 1..size |-> fill]

\* buffer[offset] = x : stores x modulo 256; an index outside the buffer is
\* ignored.
Store(buffer, offset, x) ==
  IF offset >= 0 /\ offset < Len(buffer)
  THEN [buffer EXCEPT ![offset + 1] = x % 256]
  ELSE buffer

\* buffer[offset] : undefined outside the buffer.
Load(buffer, offset) ==
  IF offset >= 0 /\ offset < Len(buffer) THEN Num(buffer[offset + 1])
  ELSE Undefined

\* buffer.slice(0, end): end is clamped to the buffer's length.
Slice0(buffer, end) ==
  SubSeq(buffer, 1, IF end < Len(buffer) THEN end ELSE Len(buffer))

\* ------------------------------------------------------------------------
\* VarintEncoder and MapCompressor.writeVarint
\* ------------------------------------------------------------------------

encodeZigzag(value) ==
  Xor32(Shl32(ToInt32(value), 1), Sar32(ToInt32(value), 31))

\* decodeZigzag with a sign-propagating shift in place of >>>.
decodeZigzagSignedShift(value) ==
  Xor32(Sar32(ToInt32(value), 1), -And32(ToInt32(value), 1))

decodeZigzag(value) ==
  Xor32(Shr32(ToInt32(value), 1), -And32(ToInt32(value), 1))

\* The loop of MapCompressor.writeVarint, from `current`.
RECURSIVE writeVarintLoop(_, _, _)
writeVarintLoop(current, buffer, offset) ==
  IF current > 127
  THEN writeVarintLoop(Shr32(current, 7),
                       Store(buffer, offset, Or32(And32(current, 127), 128)),
                       offset + 1)
  ELSE [buffer |-> Store(buffer, offset, current), offset |-> offset + 1]

\* MapCompressor.writeVarint(value, buffer, offset): the buffer after the
\* write and the new offset.
writeVarint(value, buffer, offset) ==
  LET zigzag == Xor32(Shl32(ToInt32(value), 1), Sar32(ToInt32(value), 31))
  IN writeVarintLoop(zigzag, buffer, offset)

\* VarintEncoder.writeVarint(buffer, offset, value): the buffer after the
\* write and the new offset, which is what the method returns.
RECURSIVE VarintEncoder_writeVarint(_, _, _)
VarintEncoder_writeVarint(buffer, offset, value) ==
  IF And32(value, -128) # 0
  THEN VarintEncoder_writeVarint(Store(buffer, offset, Or32(And32(value, 127), 128)),
                                 offset + 1, Shr32(value, 7))
  ELSE [buffer |-> Store(buffer, offset, And32(value, 127)),
        offset |-> offset + 1]

\* The loop of VarintEncoder.writeSignedVarint, from the zigzag value.
RECURSIVE writeSignedVarintLoop(_, _, _)
writeSignedVarintLoop(value, buffer, offset) ==
  IF value > 127
  THEN writeSignedVarintLoop(Shr32(value, 7),
                             Store(buffer, offset, Or32(And32(value, 127), 128)),
                             offset + 1)
  ELSE [buffer |-> Store(buffer, offset, And32(value, 127)),
        offset |-> offset + 1]

\* VarintEncoder.writeSignedVarint(buffer, offset, value)
writeSignedVarint(buffer, offset, value) ==
  writeSignedVarintLoop(
    Xor32(Shl32(ToInt32(value), 1), Sar32(ToInt32(value), 31)), buffer, offset)

\* The do-while loop of VarintEncoder.readVarintFast.
RECURSIVE readVarintFastLoop(_, _, _, _)
readVarintFastLoop(buffer, offset, v, s) ==
  LET b == ToInt32(Load(buffer, offset))
      v2 == Or32(v, Shl32(And32(b, 127), s))
  IN IF And32(b, 128) # 0
     THEN readVarintFastLoop(buffer, offset + 1, v2, s + 7)
     ELSE [value |-> v2, offset |-> offset + 1]

\* VarintEncoder.readVarintFast(buffer, offset)
readVarintFast(buffer, offset) == readVarintFastLoop(buffer, offset, 0, 0)

\* ------------------------------------------------------------------------
\* Strings: coordinate keys "x,y,z"
\* ------------------------------------------------------------------------

Digits == <<"0", "1", "2", "3", "4", "5", "6", "7", "8", "9">>

IsDigit(c) == \E d \in 1..10 : Digits[d] = c
DigitVal(c) == (CHOOSE d \in 1..10 : Digits[d] = c) - 1

RECURSIVE AllDigits(_)
AllDigits(s) == \/ s = ""
                \/ (IsDigit(Head(s)) /\ AllDigits(Tail(s)))

RECURSIVE ParseDigits(_, _)
ParseDigits(s, acc) ==
  IF s = "" THEN acc ELSE ParseDigits(Tail(s), (acc * 10) + DigitVal(Head(s)))

\* Number(text) for the texts of the model: an optionally signed decimal
\* integer is its value, the empty string is 0, anything else is NaN.
Number(s) ==
  IF s = "" THEN Num(0)
  ELSE IF AllDigits(s) THEN Num(ParseDigits(s, 0))
  ELSE IF Head(s) = "-" /\ Len(s) > 1 /\ AllDigits(Tail(s))
       THEN Num(0 - ParseDigits(Tail(s), 0))
  ELSE NaN

\* coord.split(','): the pieces between the commas.
RECURSIVE SplitLoop(_, _, _)
SplitLoop(s, piece, done) ==
  IF s = "" THEN Append(done, piece)
  ELSE IF Head(s) = "," THEN SplitLoop(Tail(s), "", Append(done, piece))
  ELSE SplitLoop(Tail(s), piece \o Head(s), done)

Split(s) == SplitLoop(s, "", << >>)

\* const [x, y, z] = coord.split(',').map(Number): a missing piece is
\* undefined.
ParseCoord(coord) ==
  With(Split(coord),
    LAMBDA parts :
      [p \in {"x", "y", "z"} |->
         With(CHOOSE i \in 1..3 : <<"x", "y", "z">>[i] = p,
           LAMBDA i : IF i <= Len(parts) THEN Number(parts[i]) ELSE Undefined)])

RECURSIVE DecStr(_)
DecStr(n) == IF n < 10 THEN Digits[n + 1]
             ELSE DecStr(n \div 10) \o Digits[(n % 10) + 1]

\* `${a}`: the text of a value in a template literal.
ToStr(a) ==
  CASE a.k = "num" ->
         (IF a.v >= 0 THEN DecStr(a.v)
          ELSE IF a.v = MinInt32 THEN "-2147483648"
          ELSE "-" \o DecStr(0 - a.v))
    [] a.k = "nan" -> "NaN"
    [] a.k = "undef" -> "undefined"
    [] a.k = "inf" -> (IF a.v > 0 THEN "Infinity" ELSE "-Infinity")
    [] a.k = "big" -> (IF a.v > 0 THEN "<above int32>" ELSE "<below int32>")

\* `${x},${y},${z}`
CoordKey(x, y, z) == ToStr(x) \o "," \o ToStr(y) \o "," \o ToStr(z)

\* ------------------------------------------------------------------------
\* Objects keyed by strings
\* ------------------------------------------------------------------------

EmptyObject == [k \in {} |-> Undefined]

\* obj[key] = val
Put(obj, key, val) ==
  [k \in (DOMAIN obj) \cup {key} |-> IF k = key THEN val ELSE obj[k]]

\* The blocks object of a map given as its entries in insertion order.
RECURSIVE ObjectOf(_)
ObjectOf(entries) ==
  IF entries = << >> THEN EmptyObject
  ELSE Put(ObjectOf(SubSeq(entries, 1, Len(entries) - 1)),
           entries[Len(entries)].key, Num(entries[Len(entries)].id))

\* ------------------------------------------------------------------------
\* MapCompressor
\* ------------------------------------------------------------------------

\* MapCompressor.calculateBounds(blocks): the loop over the keys, from the
\* bounds b.
RECURSIVE calculateBoundsLoop(_, _, _)
calculateBoundsLoop(blocks, i, b) ==
  IF i > Len(blocks) THEN b
  ELSE With(ParseCoord(blocks[i].key),
         LAMBDA c :
           calculateBoundsLoop(blocks, i + 1,
             [minX |-> MathMin(b.minX, c.x), minY |-> MathMin(b.minY, c.y),
              minZ |-> MathMin(b.minZ, c.z), maxX |-> MathMax(b.maxX, c.x),
              maxY |-> MathMax(b.maxY, c.y), maxZ |-> MathMax(b.maxZ, c.z)]))

\* calculateBounds with its six running values starting at 0 in place of
\* Infinity and -Infinity.
calculateBoundsFromZero(blocks) ==
  calculateBoundsLoop(blocks, 1,
    [minX |-> Num(0), minY |-> Num(0), minZ |-> Num(0),
     maxX |-> Num(0), maxY |-> Num(0), maxZ |-> Num(0)])

calculateBounds(blocks) ==
  calculateBoundsLoop(blocks, 1,
    [minX |-> PosInf, minY |-> PosInf, minZ |-> PosInf,
     maxX |-> NegInf, maxY |-> NegInf, maxZ |-> NegInf])

\* The entries parsed and shifted by the bounds minimum
\* (the .map(...) of compress).
ShiftedBlocks(blocks, bounds) ==
  [i \in 1..Len(blocks) |->
     With(ParseCoord(blocks[i].key),
       LAMBDA c :
         [x |-> JsSub(c.x, bounds.minX), y |-> JsSub(c.y, bounds.minY),
          z |-> JsSub(c.z, bounds.minZ), id |-> Num(blocks[i].id)])]

\* (a, b) => a.y - b.y || a.x - b.x || a.z - b.z
Comparator(a, b) == JsOr(JsSub(a.y, b.y), JsOr(JsSub(a.x, b.x), JsSub(a.z, b.z)))

\* Array.prototype.sort is stable: an element moves in front of the
\* elements the comparator puts it strictly before.
RECURSIVE InsertSorted(_, _)
InsertSorted(sorted, e) ==
  IF sorted = << >> THEN <<e>>
  ELSE IF JsLess(Comparator(e, sorted[Len(sorted)]), Num(0))
       THEN Append(InsertSorted(SubSeq(sorted, 1, Len(sorted) - 1), e),
                   sorted[Len(sorted)])
       ELSE Append(sorted, e)

RECURSIVE SortBlocks(_)
SortBlocks(arr) ==
  IF arr = << >> THEN << >>
  ELSE InsertSorted(SortBlocks(SubSeq(arr, 1, Len(arr) - 1)), arr[Len(arr)])

\* buffer.writeUInt32LE(value, offset): the four bytes, least significant
\* first.  The caller checks the range.
writeUInt32LE(buffer, value, offset) ==
  [i \in 1..Len(buffer) |->
     IF i = offset + 1 THEN value % 256
     ELSE IF i = offset + 2 THEN (value \div 256) % 256
     ELSE IF i = offset + 3 THEN (value \div 65536) % 256
     ELSE IF i = offset + 4 THEN (value \div 16777216) % 256
     ELSE buffer[i]]

\* The for-loop of compress over the sorted blocks.
RECURSIVE EncodeLoop(_, _, _, _, _)
EncodeLoop(blocks, i, last, buffer, offset) ==
  IF i > Len(blocks) THEN [buffer |-> buffer, offset |-> offset]
  ELSE With(writeVarint(JsSub(blocks[i].x, last.x), buffer, offset), LAMBDA w1 :
       With(writeVarint(JsSub(blocks[i].y, last.y), w1.buffer, w1.offset), LAMBDA w2 :
       With(writeVarint(JsSub(blocks[i].z, last.z), w2.buffer, w2.offset), LAMBDA w3 :
       With(writeVarint(blocks[i].id, w3.buffer, w3.offset), LAMBDA w4 :
         EncodeLoop(blocks, i + 1,
                    [x |-> blocks[i].x, y |-> blocks[i].y, z |-> blocks[i].z],
                    w4.buffer, w4.offset)))))

\* Bytes the working buffer of compress gets per block.
BytesPerBlock == 15

\* The encoding stage of compress: bounds, sort, and the delta + varint
\* stream written into the working buffer.  `threw` is the RangeError of
\* writeUInt32LE on a buffer shorter than 4 bytes.
EncodeStream(mapBlocks) ==
  With(calculateBounds(mapBlocks), LAMBDA bounds :
  With(SortBlocks(ShiftedBlocks(mapBlocks, bounds)), LAMBDA blocks :
  With(allocUnsafe(Len(blocks) * BytesPerBlock, 0), LAMBDA buffer :
    IF Len(buffer) < 4
    THEN [threw |-> TRUE, bounds |-> bounds, sorted |-> blocks,
          size |-> Len(buffer), offset |-> 0, encodedData |-> << >>]
    ELSE With(EncodeLoop(blocks, 1, [x |-> Num(0), y |-> Num(0), z |-> Num(0)],
                         writeUInt32LE(buffer, Len(blocks), 0), 4),
           LAMBDA w :
             [threw |-> FALSE, bounds |-> bounds, sorted |-> blocks,
              size |-> Len(buffer), offset |-> w.offset,
              encodedData |-> Slice0(w.buffer, w.offset)]))))

\* ------------------------------------------------------------------------
\* BrotliWrapper
\* ------------------------------------------------------------------------

\* zlib is a library outside the repository.  A compressed stream is
\* modelled as the format's marker, the content's length and the content:
\* decompressing a stream of another format, or a truncated one, is an
\* error, as it is with zlib.
FormatMarker(format) == IF format = "gzip" THEN 31 ELSE 206

zlibCompress(format, data) == <<FormatMarker(format), Len(data)>> \o data

zlibDecompress(format, data) ==
  IF /\ Len(data) >= 2
     /\ data[1] = FormatMarker(format)
     /\ data[2] = Len(data) - 2
  THEN [threw |-> FALSE, data |-> SubSeq(data, 3, Len(data))]
  ELSE [threw |-> TRUE, data |-> << >>]

\* A tag is a string; "undefined" stands for an absent one.
OrBrotli(algorithm) ==
  IF algorithm = "undefined" \/ algorithm = "" THEN "brotli" ELSE algorithm

\* BrotliWrapper.compress(data, {algorithm})
BrotliWrapper_compress(data, algorithm) ==
  IF OrBrotli(algorithm) = "none" THEN data
  ELSE IF OrBrotli(algorithm) = "gzip" THEN zlibCompress("gzip", data)
  ELSE zlibCompress("brotli", data)

\* BrotliWrapper.decompress(data, algorithm = 'brotli')
BrotliWrapper_decompress(data, algorithm) ==
  LET alg == IF algorithm = "undefined" THEN "brotli" ELSE algorithm
  IN IF alg = "none" THEN [threw |-> FALSE, data |-> data]
     ELSE IF alg = "gzip" THEN zlibDecompress("gzip", data)
     ELSE zlibDecompress("brotli", data)

\* The padding character of base64, after the 64 digits 0..63.
Base64Pad == 63 + 1

\* buffer.toString('base64'): a text of base64 digits, given by their values.
RECURSIVE toBase64(_)
toBase64(bytes) ==
  IF Len(bytes) = 0 THEN << >>
  ELSE IF Len(bytes) = 1
       THEN <<bytes[1] \div 4, (bytes[1] % 4) * 16, Base64Pad, Base64Pad>>
  ELSE IF Len(bytes) = 2
       THEN <<bytes[1] \div 4, ((bytes[1] % 4) * 16) + (bytes[2] \div 16),
              (bytes[2] % 16) * 4, Base64Pad>>
  ELSE <<bytes[1] \div 4, ((bytes[1] % 4) * 16) + (bytes[2] \div 16),
         ((bytes[2] % 16) * 4) + (bytes[3] \div 64), bytes[3] % 64>>
       \o toBase64(SubSeq(bytes, 4, Len(bytes)))

\* Buffer.from(text, 'base64'): decoding stops at the padding.
RECURSIVE fromBase64(_)
fromBase64(text) ==
  IF Len(text) < 2 \/ text[1] = Base64Pad \/ text[2] = Base64Pad THEN << >>
  ELSE LET b1 == (text[1] * 4) + (text[2] \div 16)
       IN IF Len(text) < 3 \/ text[3] = Base64Pad THEN <<b1>>
          ELSE LET b2 == ((text[2] % 16) * 16) + (text[3] \div 4)
               IN IF Len(text) < 4 \/ text[4] = Base64Pad THEN <<b1, b2>>
                  ELSE <<b1, b2, ((text[3] % 4) * 64) + text[4]>>
                       \o fromBase64(SubSeq(text, 5, Len(text)))

\* BrotliWrapper.compressToBase64(data, {algorithm})
compressToBase64(data, algorithm) ==
  toBase64(BrotliWrapper_compress(data, algorithm))

\* BrotliWrapper.decompressFromBase64(base64, algorithm = 'brotli')
decompressFromBase64(base64, algorithm) ==
  BrotliWrapper_decompress(fromBase64(base64), algorithm)

\* ------------------------------------------------------------------------
\* MapCompressor: constructor, compress, createCompressedMap
\* ------------------------------------------------------------------------

\* A flag of the options is "true", "false" or "undefined".
IsTrue(flag) == flag = "true"

\* The compression options a caller can pass: each field given or not.
NoCompressionOptions ==
  [given |-> FALSE, algorithm |-> "undefined", useDelta |-> "undefined",
   useVarint |-> "undefined"]

\* MapCompressor's constructor: the defaults are merged with
\* options.compression, and then `...options` puts options.compression, when
\* the caller gave one, in the place of the merged object.
MapCompressorOptions(compression) ==
  IF compression.given THEN compression
  ELSE [given |-> TRUE, algorithm |-> "brotli", useDelta |-> "true",
        useVarint |-> "true"]

\* The options MapCompression's constructor hands to its MapCompressor: the
\* defaults with the caller's fields over them.
MapCompressionOptions(compression) ==
  [given |-> TRUE,
   algorithm |-> IF compression.algorithm = "undefined" THEN "brotli"
                 ELSE compression.algorithm,
   useDelta |-> IF compression.useDelta = "undefined" THEN "true"
                ELSE compression.useDelta,
   useVarint |-> IF compression.useVarint = "undefined" THEN "true"
                 ELSE compression.useVarint]

\* mapData.blockTypes || {}
BlockTypesOrEmpty(mapData) ==
  IF mapData.blockTypes = "undefined" THEN "{}" ELSE mapData.blockTypes

\* mapData.entities || {}
EntitiesOrEmpty(mapData) ==
  IF mapData.entities = "undefined" THEN "{}" ELSE mapData.entities

NoBounds ==
  [minX |-> Undefined, minY |-> Undefined, minZ |-> Undefined,
   maxX |-> Undefined, maxY |-> Undefined, maxZ |-> Undefined]

\* MapCompressor.compress(mapData) of a compressor with the options `opts`:
\* the CompressionResult, or the exception it raised.
\* What compress raises when writeUInt32LE does.
FailedCompression ==
  [threw |-> TRUE, error |-> "RangeError", data |-> << >>,
   blockTypes |-> "undefined", bounds |-> NoBounds,
   version |-> "undefined", blockCount |-> 0]

\* The part of compress after `await BrotliWrapper.compressToBase64(...)`:
\* the CompressionResult built from the compressed data and the bounds.
CompressionResult(compressedData, bounds, mapData) ==
  [threw |-> FALSE, error |-> "",
   data |-> compressedData,
   blockTypes |-> BlockTypesOrEmpty(mapData),
   bounds |-> bounds,
   version |-> "1.0.0",
   blockCount |-> Len(mapData.blocks)]

compress(mapData, opts) ==
  With(EncodeStream(mapData.blocks),
    LAMBDA e :
      IF e.threw THEN FailedCompression
      ELSE CompressionResult(compressToBase64(e.encodedData, opts.algorithm),
                             e.bounds, mapData))

\* The fields of a compressed map file.
ArtifactFields ==
  {"version", "algorithm", "data", "blockTypes", "bounds", "entities",
   "mapVersion", "metadata", "options", "sourceHash"}

NoArtifact ==
  [has |-> {}, version |-> "undefined", algorithm |-> "undefined",
   data |-> << >>, blockTypes |-> "undefined", bounds |-> NoBounds,
   entities |-> "undefined", mapVersion |-> "undefined",
   options |-> [useDelta |-> "undefined", useVarint |-> "undefined"],
   sourceHash |-> "undefined"]

\* MapCompressor.createCompressedMap(result, mapData)
createCompressedMap(result, mapData, opts) ==
  [has |-> ArtifactFields \ {"sourceHash"},
   version |-> result.version,
   algorithm |-> OrBrotli(opts.algorithm),
   data |-> result.data,
   blockTypes |-> result.blockTypes,
   bounds |-> result.bounds,
   entities |-> EntitiesOrEmpty(mapData),
   mapVersion |-> mapData.version,
   options |-> [useDelta |-> opts.useDelta, useVarint |-> opts.useVarint],
   sourceHash |-> "undefined"]

\* The CompressionResult itself, given to decompress as the README does:
\* it has no algorithm, entities or options field.
ResultAsArtifact(result) ==
  [NoArtifact EXCEPT !.has = {"version", "data", "blockTypes", "bounds", "metadata"},
                     !.version = result.version, !.data = result.data,
                     !.blockTypes = result.blockTypes, !.bounds = result.bounds]

\* The artifact examples/basic-compression.ts builds: no options field.
ExampleArtifact(result, mapData) ==
  [NoArtifact EXCEPT !.has = {"version", "algorithm", "data", "blockTypes",
                              "bounds", "entities", "mapVersion"},
                     !.version = result.version, !.algorithm = "brotli",
                     !.data = result.data, !.blockTypes = result.blockTypes,
                     !.bounds = result.bounds, !.entities = mapData.entities,
                     !.mapVersion = mapData.version]

\* The artifact test-integrity.ts builds, and autoLoad writes as its cache
\* (with the hash of the source): algorithm brotli, options {true, true}.
FullArtifact(result, mapData, hash) ==
  [has |-> IF hash = "undefined" THEN ArtifactFields \ {"sourceHash"}
           ELSE ArtifactFields,
   version |-> result.version,
   algorithm |-> "brotli",
   data |-> result.data,
   blockTypes |-> result.blockTypes,
   bounds |-> result.bounds,
   entities |-> EntitiesOrEmpty(mapData),
   mapVersion |-> IF mapData.version = "undefined" THEN "1.0.0"
                  ELSE mapData.version,
   options |-> [useDelta |-> "true", useVarint |-> "true"],
   sourceHash |-> hash]

\* ------------------------------------------------------------------------
\* MapDecompressor
\* ------------------------------------------------------------------------

\* buffer.readUInt32LE(offset); the caller checks the range.
readUInt32LE(buffer, offset) ==
  buffer[offset + 1] + (buffer[offset + 2] * 256) + (buffer[offset + 3] * 65536)
    + (buffer[offset + 4] * 16777216)

\* The for-loop of decodeVarintDelta, from record i.
RECURSIVE decodeVarintDeltaLoop(_, _, _, _, _, _, _)
decodeVarintDeltaLoop(buffer, min, i, blockCount, offset, last, blocks) ==
  IF i >= blockCount THEN blocks
  ELSE With(readVarintFast(buffer, offset), LAMBDA resultX :
       With(JsAdd(last.x, Num(decodeZigzag(Num(resultX.value)))), LAMBDA lastX :
       With(readVarintFast(buffer, resultX.offset), LAMBDA resultY :
       With(JsAdd(last.y, Num(decodeZigzag(Num(resultY.value)))), LAMBDA lastY :
       With(readVarintFast(buffer, resultY.offset), LAMBDA resultZ :
       With(JsAdd(last.z, Num(decodeZigzag(Num(resultZ.value)))), LAMBDA lastZ :
       With(readVarintFast(buffer, resultZ.offset), LAMBDA resultId :
         decodeVarintDeltaLoop(buffer, min, i + 1, blockCount, resultId.offset,
           [x |-> lastX, y |-> lastY, z |-> lastZ],
           Put(blocks,
               CoordKey(JsAdd(lastX, JsOr(min.x, Num(0))),
                        JsAdd(lastY, JsOr(min.y, Num(0))),
                        JsAdd(lastZ, JsOr(min.z, Num(0)))),
               Num(decodeZigzag(Num(resultId.value))))))))))))

\* MapDecompressor.decodeVarintDelta(buffer, compressedData); `min` is
\* compressedData.bounds?.minX, minY, minZ.
decodeVarintDelta(buffer, min) ==
  IF Len(buffer) < 4
  THEN [threw |-> TRUE, error |-> "RangeError", blocks |-> EmptyObject]
  ELSE [threw |-> FALSE, error |-> "",
        blocks |-> decodeVarintDeltaLoop(buffer, min, 0, readUInt32LE(buffer, 0), 4,
                     [x |-> Num(0), y |-> Num(0), z |-> Num(0)], EmptyObject)]

\* new Int32Array(buffer.buffer, buffer.byteOffset, buffer.length / 4): the
\* number of elements, and element j (undefined outside the array).
Int32Length(buffer) == Len(buffer) \div 4

Int32At(buffer, j) ==
  IF j >= 0 /\ j < Int32Length(buffer)
  THEN LET b3 == buffer[(4 * j) + 4]
       IN Num(((IF b3 >= 128 THEN b3 - 256 ELSE b3) * 16777216)
              + (buffer[(4 * j) + 3] * 65536) + (buffer[(4 * j) + 2] * 256)
              + buffer[(4 * j) + 1])
  ELSE Undefined

\* A decoder of fixed-width records that takes every record as a position,
\* without running sums.
RECURSIVE decodeRecordsAsPositions(_, _, _, _)
decodeRecordsAsPositions(buffer, i, last, blocks) ==
  IF 4 * i >= Int32Length(buffer) THEN blocks
  ELSE decodeRecordsAsPositions(buffer, i + 1, last,
         Put(blocks,
             CoordKey(Int32At(buffer, 4 * i), Int32At(buffer, (4 * i) + 1),
                      Int32At(buffer, (4 * i) + 2)),
             Int32At(buffer, (4 * i) + 3)))

\* DeltaEncoder.decodePositions(deltas, blockIds) as decodeDeltaOnly calls
\* it, fused with the loop that fills deltas and blockIds from the array:
\* record i takes elements 4i .. 4i+3.
RECURSIVE decodeDeltaOnlyLoop(_, _, _, _)
decodeDeltaOnlyLoop(buffer, i, last, blocks) ==
  IF 4 * i >= Int32Length(buffer) THEN blocks
  ELSE With([x |-> JsAdd(last.x, Int32At(buffer, 4 * i)),
             y |-> JsAdd(last.y, Int32At(buffer, (4 * i) + 1)),
             z |-> JsAdd(last.z, Int32At(buffer, (4 * i) + 2))],
         LAMBDA pos :
           decodeDeltaOnlyLoop(buffer, i + 1, pos,
                               Put(blocks, CoordKey(pos.x, pos.y, pos.z),
                                   Int32At(buffer, (4 * i) + 3))))

\* MapDecompressor.decodeDeltaOnly(buffer)
decodeDeltaOnly(buffer) ==
  decodeDeltaOnlyLoop(buffer, 0, [x |-> Num(0), y |-> Num(0), z |-> Num(0)],
                      EmptyObject)

\* The for-loop of decodeDirect, i += 4.
RECURSIVE decodeDirectLoop(_, _, _)
decodeDirectLoop(buffer, i, blocks) ==
  IF i >= Int32Length(buffer) THEN blocks
  ELSE decodeDirectLoop(buffer, i + 4,
         Put(blocks,
             CoordKey(Int32At(buffer, i), Int32At(buffer, i + 1),
                      Int32At(buffer, i + 2)),
             Int32At(buffer, i + 3)))

\* MapDecompressor.decodeDirect(buffer)
decodeDirect(buffer) == decodeDirectLoop(buffer, 0, EmptyObject)

\* A field of the artifact is read as undefined when the artifact lacks it.
Has(artifact, field) == field \in artifact.has

FailedDecompression(error) ==
  [threw |-> TRUE, error |-> error, blocks |-> EmptyObject,
   blockTypes |-> "undefined", entities |-> "undefined", version |-> "undefined"]

\* MapDecompressor.decompress(compressedData): the DecompressionResult, or
\* the exception raised.
\* The check decompress makes before it decodes anything.
InvalidFormat(compressedData) ==
  \/ ~Has(compressedData, "version") \/ compressedData.version = "undefined"
  \/ ~Has(compressedData, "data") \/ compressedData.data = << >>
  \/ ~Has(compressedData, "blockTypes") \/ compressedData.blockTypes = "undefined"

\* compressedData.algorithm, undefined when the field is absent.
AlgorithmOf(compressedData) ==
  IF Has(compressedData, "algorithm") THEN compressedData.algorithm
  ELSE "undefined"

\* The part of decompress after `await BrotliWrapper.decompressFromBase64`:
\* the decoder the options select, and the DecompressionResult.
DecodeDecompressed(compressedData, decompressed) ==
  LET useDelta == Has(compressedData, "options")
                  /\ IsTrue(compressedData.options.useDelta)
      useVarint == Has(compressedData, "options")
                   /\ IsTrue(compressedData.options.useVarint)
      min == IF Has(compressedData, "bounds")
             THEN [x |-> compressedData.bounds.minX,
                   y |-> compressedData.bounds.minY,
                   z |-> compressedData.bounds.minZ]
             ELSE [x |-> Undefined, y |-> Undefined, z |-> Undefined]
  IN IF decompressed.threw THEN FailedDecompression("ZlibError")
     ELSE With(IF useDelta /\ useVarint
               THEN decodeVarintDelta(decompressed.data, min)
               ELSE [threw |-> FALSE, error |-> "",
                     blocks |-> IF useDelta
                                THEN decodeDeltaOnly(decompressed.data)
                                ELSE decodeDirect(decompressed.data)],
            LAMBDA decoded :
              IF decoded.threw THEN FailedDecompression(decoded.error)
              ELSE [threw |-> FALSE, error |-> "",
                    blocks |-> decoded.blocks,
                    blockTypes |-> compressedData.blockTypes,
                    entities |-> IF Has(compressedData, "entities")
                                 THEN compressedData.entities
                                 ELSE "undefined",
                    version |-> IF Has(compressedData, "mapVersion")
                                THEN compressedData.mapVersion
                                ELSE "undefined"])

decompress(compressedData) ==
  IF InvalidFormat(compressedData)
  THEN FailedDecompression("Invalid compressed map format")
  ELSE With(decompressFromBase64(compressedData.data, AlgorithmOf(compressedData)),
         LAMBDA decompressed : DecodeDecompressed(compressedData, decompressed))

\* ------------------------------------------------------------------------
\* The host world, DirectChunkLoader and FastLoader
\* ------------------------------------------------------------------------

\* A world of the host as the library sees it: the blocks placed in it, its
\* entities property, and whether world.loadMap is the monkey patch.
FreshWorld == [blocks |-> EmptyObject, entities |-> "undefined", patched |-> FALSE]

\* this.world.setBlock({ x, y, z }, id)
setBlock(world, block) ==
  [world EXCEPT !.blocks = Put(@, CoordKey(block.x, block.y, block.z), block.id)]

\* await this.world.loadMap(mapData): the host places every block of the map
\* and takes the map's entities.
loadMap(world, blocks, entities) ==
  [world EXCEPT
     !.blocks = [k \in (DOMAIN world.blocks) \cup (DOMAIN blocks) |->
                   IF k \in DOMAIN blocks THEN blocks[k] ELSE world.blocks[k]],
     !.entities = entities]

\* Object.entries(blocks) of a blocks object.  The entries of the model's
\* objects come in a fixed order; their keys are distinct, so the order does
\* not change what a loader leaves in the world.
RECURSIVE ObjectEntries(_)
ObjectEntries(obj) ==
  IF DOMAIN obj = {} THEN << >>
  ELSE LET k == CHOOSE key \in DOMAIN obj : TRUE
       IN <<[key |-> k, id |-> obj[k]]>>
          \o ObjectEntries([key \in (DOMAIN obj) \ {k} |-> obj[key]])

\* Object.entries(mapData.blocks) of a map read from its file.
MapEntries(blocks) == [i \in 1..Len(blocks) |-> [key |-> blocks[i].key, id |-> Num(blocks[i].id)]]

ChunkSize == 16

\* Math.floor(v / this.chunkSize)
ChunkOf(a) == IF a.k = "num" THEN Num(a.v \div ChunkSize) ELSE NaN

\* chunks.get(chunkKey).push(block), creating the chunk when it is new.
AddToChunk(chunks, chunkKey, block) ==
  IF \E c \in 1..Len(chunks) : chunks[c].key = chunkKey
  THEN [c \in 1..Len(chunks) |->
          IF chunks[c].key = chunkKey
          THEN [chunks[c] EXCEPT !.blocks = Append(@, block)]
          ELSE chunks[c]]
  ELSE Append(chunks, [key |-> chunkKey, blocks |-> <<block>>])

\* DirectChunkLoader.groupBlocksByChunk(blocks), from entry i.
RECURSIVE groupBlocksByChunk(_, _, _)
groupBlocksByChunk(entries, i, chunks) ==
  IF i > Len(entries) THEN chunks
  ELSE With(ParseCoord(entries[i].key),
         LAMBDA c :
           groupBlocksByChunk(entries, i + 1,
             AddToChunk(chunks,
                        [x |-> ChunkOf(c.x), y |-> ChunkOf(c.y), z |-> ChunkOf(c.z)],
                        [x |-> c.x, y |-> c.y, z |-> c.z, id |-> entries[i].id])))

\* DirectChunkLoader.loadBlocksBatched(blocks): setBlock for every block.
RECURSIVE loadBlocksBatched(_, _, _)
loadBlocksBatched(world, blocks, i) ==
  IF i > Len(blocks) THEN world
  ELSE loadBlocksBatched(setBlock(world, blocks[i]), blocks, i + 1)

\* DirectChunkLoader.loadChunksBatched(chunks), from chunk c.
RECURSIVE loadChunksBatched(_, _, _)
loadChunksBatched(world, chunks, c) ==
  IF c > Len(chunks) THEN world
  ELSE loadChunksBatched(loadBlocksBatched(world, chunks[c].blocks, 1), chunks, c + 1)

\* DirectChunkLoader.loadChunks(blocks, blockTypes) on a host world without
\* a chunk storage of its own: registerBlockTypes throws when the world has
\* no setBlock, otherwise every chunk is loaded in batches.
loadChunks(world, entries, hasSetBlock) ==
  IF ~hasSetBlock THEN [threw |-> TRUE, world |-> world]
  ELSE [threw |-> FALSE,
        world |-> loadChunksBatched(world, groupBlocksByChunk(entries, 1, << >>), 1)]

\* buffer.writeInt32LE(v) and buffer.writeUInt16LE(v): the bytes written.
Int32LE(v) ==
  <<v % 256, (v \div 256) % 256, (v \div 65536) % 256, (v \div 16777216) % 256>>

UInt16LE(v) == <<v % 256, (v \div 256) % 256>>

\* buffer.readInt32LE(offset) and buffer.readUInt16LE(offset)
readInt32LE(buffer, offset) ==
  ((IF buffer[offset + 4] >= 128 THEN buffer[offset + 4] - 256
    ELSE buffer[offset + 4]) * 16777216)
  + (buffer[offset + 3] * 65536) + (buffer[offset + 2] * 256) + buffer[offset + 1]

readUInt16LE(buffer, offset) == (buffer[offset + 2] * 256) + buffer[offset + 1]

\* 0x3142434d, "MCB1"
ChunkMagic == 826426189

\* The 14 bytes of each block of a chunk, from block i.
RECURSIVE BlocksBuffer(_, _)
BlocksBuffer(blockList, i) ==
  IF i > Len(blockList) THEN << >>
  ELSE Int32LE(blockList[i].x.v) \o Int32LE(blockList[i].y.v)
       \o Int32LE(blockList[i].z.v) \o UInt16LE(blockList[i].id.v)
       \o BlocksBuffer(blockList, i + 1)

\* The header and the blocks of every chunk, from chunk c.
RECURSIVE ChunkBuffers(_, _)
ChunkBuffers(chunks, c) ==
  IF c > Len(chunks) THEN << >>
  ELSE Int32LE(chunks[c].key.x.v) \o Int32LE(chunks[c].key.y.v)
       \o Int32LE(chunks[c].key.z.v) \o Int32LE(Len(chunks[c].blocks))
       \o BlocksBuffer(chunks[c].blocks, 1)
       \o ChunkBuffers(chunks, c + 1)

\* DirectChunkLoader.precomputeChunks(blocks): the bytes of the chunks file.
precomputeChunks(entries) ==
  With(groupBlocksByChunk(entries, 1, << >>),
    LAMBDA chunks :
      Int32LE(ChunkMagic) \o Int32LE(Len(chunks)) \o ChunkBuffers(chunks, 1))

\* The inner loop of loadPrecomputedChunks: the blocks of one chunk, from
\* block i, and the offset after them.
RECURSIVE ReadChunkBlocks(_, _, _, _, _)
ReadChunkBlocks(chunkData, offset, i, blockCount, blocks) ==
  IF i >= blockCount \/ offset + 14 > Len(chunkData)
  THEN [blocks |-> blocks, offset |-> offset]
  ELSE ReadChunkBlocks(chunkData, offset + 14, i + 1, blockCount,
         Append(blocks,
                [x |-> Num(readInt32LE(chunkData, offset)),
                 y |-> Num(readInt32LE(chunkData, offset + 4)),
                 z |-> Num(readInt32LE(chunkData, offset + 8)),
                 id |-> Num(readUInt16LE(chunkData, offset + 12))]))

\* The outer loop of loadPrecomputedChunks, from chunk c.
RECURSIVE ReadChunks(_, _, _, _, _)
ReadChunks(world, chunkData, offset, c, chunkCount) ==
  IF c >= chunkCount \/ offset + 16 > Len(chunkData) THEN world
  ELSE With(ReadChunkBlocks(chunkData, offset + 16, 0,
                            readUInt32LE(chunkData, offset + 12), << >>),
         LAMBDA read :
           ReadChunks(loadBlocksBatched(world, read.blocks, 1), chunkData,
                      read.offset, c + 1, chunkCount))

\* DirectChunkLoader.loadPrecomputedChunks(chunkData, blockTypes) for a file
\* in the layout precomputeChunks writes (the headerless layout of older
\* files is not modelled: nothing in this repository writes it).
loadPrecomputedChunks(world, chunkData, hasSetBlock) ==
  IF ~hasSetBlock THEN [threw |-> TRUE, world |-> world]
  ELSE IF Len(chunkData) >= 8 /\ readUInt32LE(chunkData, 0) = ChunkMagic
  THEN [threw |-> FALSE,
        world |-> ReadChunks(world, chunkData, 8, 0, readUInt32LE(chunkData, 4))]
  ELSE [threw |-> FALSE, world |-> world]

\* The thresholds of FastLoader.determineOptimalMethod.
ChunksThreshold == 1000000
HybridThreshold == 100000

\* this.options.optimization?.monkeyPatch || this.options.features?.monkeyPatching
WantsMonkeyPatch(options) == options.monkeyPatch

\* FastLoader.determineOptimalMethod(mapData), by the number of keys of
\* mapData.blocks.
determineOptimalMethodOf(blockCount, options) ==
  LET useChunks == options.useChunks # "false"
  IN IF options.optimizationEnabled /\ useChunks /\ blockCount > ChunksThreshold
     THEN "chunks"
     ELSE IF options.optimizationEnabled /\ useChunks /\ blockCount > HybridThreshold
     THEN "hybrid"
     ELSE IF WantsMonkeyPatch(options) THEN "monkeypatch"
     ELSE "default"

\* FastLoader.determineOptimalMethod(mapData)
determineOptimalMethod(blocks, options) ==
  determineOptimalMethodOf(Cardinality(DOMAIN blocks), options)

\* monkeyPatcher.patch()
patch(world) == [world EXCEPT !.patched = TRUE]

\* FastLoader.loadWithMonkeyPatch(mapData)
loadWithMonkeyPatch(world, mapData) ==
  [threw |-> FALSE, world |-> loadMap(patch(world), mapData.blocks, mapData.entities)]

\* FastLoader.loadWithChunks(mapData)
loadWithChunks(world, mapData, hasSetBlock) ==
  loadChunks([world EXCEPT !.entities = mapData.entities],
             ObjectEntries(mapData.blocks), hasSetBlock)

\* FastLoader.loadHybrid(mapData)
loadHybrid(world, mapData, options, hasSetBlock) ==
  LET patched == IF WantsMonkeyPatch(options) THEN patch(world) ELSE world
  IN IF options.useChunks # "false"
     THEN loadChunks(patched, ObjectEntries(mapData.blocks), hasSetBlock)
     ELSE [threw |-> FALSE,
           world |-> loadMap(patched, mapData.blocks, mapData.entities)]

\* FastLoader.loadDefault(mapData)
loadDefault(world, mapData) ==
  [threw |-> FALSE, world |-> loadMap(world, mapData.blocks, mapData.entities)]

\* FastLoader.load(mapData) of a compressed map: the cache files autoLoad
\* hands to it have the fields isCompressedMap looks for.
load(world, mapData, options, hasSetBlock) ==
  With(decompress(mapData),
    LAMBDA result :
      LET decompressedData ==
            [blocks |-> result.blocks,
             blockTypes |-> result.blockTypes,
             entities |-> IF result.entities = "undefined" THEN "{}"
                          ELSE result.entities,
             version |-> result.version]
          method == IF options.method # "undefined" THEN options.method
                    ELSE determineOptimalMethod(result.blocks, options)
      IN IF result.threw THEN [threw |-> TRUE, world |-> world]
         ELSE CASE method = "monkeypatch" ->
                     loadWithMonkeyPatch(world, decompressedData)
                [] method = "chunks" ->
                     loadWithChunks(world, decompressedData, hasSetBlock)
                [] method = "hybrid" ->
                     loadHybrid(world, decompressedData, options, hasSetBlock)
                [] OTHER -> loadDefault(world, decompressedData))

\* FastLoader.isCompressedMap(mapData), and MonkeyPatchLoader's copy of it
isCompressedMap(given) ==
  /\ given.kind = "compressed"
  /\ Has(given.artifact, "version") /\ given.artifact.version # "undefined"
  /\ Has(given.artifact, "algorithm") /\ given.artifact.algorithm # "undefined"
  /\ Has(given.artifact, "data") /\ given.artifact.data # << >>
  /\ Has(given.artifact, "bounds")

\* The host's own world.loadMap(mapData).  The host is not part of the
\* library: given a value without blocks it places no block, and it may
\* raise or return.
originalLoadMap(world, given) ==
  IF given.kind = "map"
  THEN {[threw |-> FALSE,
         world |-> loadMap(world, ObjectOf(given.map.blocks), given.map.entities)]}
  ELSE {[threw |-> t, world |-> world] : t \in BOOLEAN}

\* this.world.loadMap(mapData): the function MonkeyPatchLoader.patch put
\* there when the world is patched, the host's own otherwise.
worldLoadMap(world, given) ==
  IF world.patched /\ isCompressedMap(given)
  THEN {With(decompress(given.artifact),
          LAMBDA decompressed :
            IF decompressed.threw THEN [threw |-> TRUE, world |-> world]
            ELSE [threw |-> FALSE,
                  world |-> loadMap(world, decompressed.blocks,
                                    IF decompressed.entities = "undefined"
                                    THEN "{}" ELSE decompressed.entities)])}
  ELSE originalLoadMap(world, given)

\* chunkLoader.loadChunks(mapData.blocks) of a value that has no blocks:
\* Object.entries(undefined) raises a TypeError.
LoadChunksOfUndefined(world) == {[threw |-> TRUE, world |-> world]}

\* FastLoader.load(mapData) of a value isCompressedMap does not recognise:
\* the value itself goes to the loading method.
loadUndetected(world, given, options, hasSetBlock) ==
  LET mapData == [blocks |-> ObjectOf(given.map.blocks),
                  blockTypes |-> given.map.blockTypes,
                  entities |-> given.map.entities,
                  version |-> given.map.version]
      isMap == given.kind = "map"
      patched == IF WantsMonkeyPatch(options) THEN patch(world) ELSE world
      method == IF options.method # "undefined" THEN options.method
                ELSE IF isMap THEN determineOptimalMethod(mapData.blocks, options)
                ELSE "TypeError"
  IN CASE method = "TypeError" -> {[threw |-> TRUE, world |-> world]}
       [] method = "monkeypatch" -> worldLoadMap(patch(world), given)
       [] method = "chunks" ->
            IF isMap THEN {loadWithChunks(world, mapData, hasSetBlock)}
            ELSE LoadChunksOfUndefined(world)
       [] method = "hybrid" ->
            IF options.useChunks # "false"
            THEN IF isMap
                 THEN {loadChunks(patched, ObjectEntries(mapData.blocks), hasSetBlock)}
                 ELSE LoadChunksOfUndefined(patched)
            ELSE worldLoadMap(patched, given)
       [] OTHER -> worldLoadMap(world, given)

\* FastLoader.load(mapData)
FastLoader_load(world, given, options, hasSetBlock) ==
  IF isCompressedMap(given) THEN {load(world, given.artifact, options, hasSetBlock)}
  ELSE loadUndetected(world, given, options, hasSetBlock)

\* The world new MapCompression(world, options) leaves: patched when
\* monkey patching is asked for.
ConstructedWorld(options) ==
  IF WantsMonkeyPatch(options) THEN patch(FreshWorld) ELSE FreshWorld

\* features.fastLoading, which the constructor sets to !simpleMode
FastLoading(options) == ~(options.simple \/ options.compressionOnly)

\* MapCompression.loadMap(mapData): the outcomes it can have.
MapCompression_loadMap(world, given, options, hasSetBlock) ==
  IF ~FastLoading(options) THEN worldLoadMap(world, given)
  ELSE FastLoader_load(world, given, options, hasSetBlock)

\* ------------------------------------------------------------------------
\* MapCompression.autoLoad
\* ------------------------------------------------------------------------

NoFile == [exists |-> FALSE, content |-> << >>]
FileOf(content) == [exists |-> TRUE, content |-> content]

\* md5 of the map file, as a text that differs whenever the map differs.
RECURSIVE HashBlocks(_, _)
HashBlocks(blocks, i) ==
  IF i > Len(blocks) THEN ""
  ELSE blocks[i].key \o "=" \o DecStr(blocks[i].id) \o ";" \o HashBlocks(blocks, i + 1)

MapHash(mapData) == HashBlocks(mapData.blocks, 1) \o mapData.entities

\* JSON.parse(JSON.stringify(value)) of a bound: a finite number is kept,
\* anything else is written as null.
JsonNumber(a) == IF a.k = "num" THEN a ELSE Undefined

\* What reading back the written compressed map file gives.
JsonFile(compressedFile) ==
  [compressedFile EXCEPT
     !.bounds = [minX |-> JsonNumber(@.minX), minY |-> JsonNumber(@.minY),
                 minZ |-> JsonNumber(@.minZ), maxX |-> JsonNumber(@.maxX),
                 maxY |-> JsonNumber(@.maxY), maxZ |-> JsonNumber(@.maxZ)]]

\* The constructor creates this.chunkLoader when optimization.useChunks is
\* set, which it is by default unless the mode is simple.
HasChunkLoader(options) == ~options.simple

NoMethod == "none"

\* The options of the MapCompressor that autoLoad's this.compress goes to:
\* the constructor's defaults with the caller's compression.algorithm.
CompressorOptionsOf(options) ==
  MapCompressionOptions([NoCompressionOptions EXCEPT !.algorithm = options.algorithm])

\* Step 1 of autoLoad: load from the pre-computed chunks.  `done` says
\* that autoLoad returned from this step; otherwise it goes on with the
\* world the step left.
autoLoadChunks(world, mapData, options, hasSetBlock, compressedFile, chunksFile) ==
  LET fromCompressed ==
        IF compressedFile.exists
        THEN [world EXCEPT !.entities = compressedFile.content.entities]
        ELSE world
      fromOriginal ==
        IF ~compressedFile.exists /\ fromCompressed.entities = "undefined"
           /\ mapData.entities # "undefined"
        THEN [fromCompressed EXCEPT !.entities = mapData.entities]
        ELSE fromCompressed
  IN IF ~options.simple /\ ~options.compressionOnly /\ chunksFile.exists
     THEN With(loadPrecomputedChunks(fromOriginal, chunksFile.content, hasSetBlock),
            LAMBDA loaded :
              [done |-> ~loaded.threw, threw |-> FALSE, world |-> loaded.world,
               method |-> "precomputed-chunks",
               compressedFile |-> compressedFile, chunksFile |-> chunksFile,
               regenerating |-> ~loaded.threw /\ ~compressedFile.exists])
     ELSE [done |-> FALSE, threw |-> FALSE, world |-> world, method |-> NoMethod,
           compressedFile |-> compressedFile, chunksFile |-> chunksFile,
           regenerating |-> FALSE]

\* Step 2 of autoLoad: load from the compressed cache, and write the chunks
\* cache when it is missing.
autoLoadCompressed(world, mapData, options, hasSetBlock, compressedFile, chunksFile) ==
  IF /\ compressedFile.exists
     /\ ~(/\ Has(compressedFile.content, "sourceHash")
          /\ compressedFile.content.sourceHash # MapHash(mapData))
  THEN With(load(world, compressedFile.content, options, hasSetBlock),
         LAMBDA loaded :
           [done |-> ~loaded.threw, threw |-> FALSE, world |-> loaded.world,
            method |-> "compressed-fast",
            compressedFile |-> compressedFile,
            chunksFile |->
              IF ~loaded.threw /\ ~chunksFile.exists /\ HasChunkLoader(options)
              THEN FileOf(With(decompress(compressedFile.content),
                            LAMBDA decompressed :
                              precomputeChunks(ObjectEntries(decompressed.blocks))))
              ELSE chunksFile,
            regenerating |-> FALSE])
  ELSE [done |-> FALSE, threw |-> FALSE, world |-> world, method |-> NoMethod,
        compressedFile |-> compressedFile, chunksFile |-> chunksFile,
        regenerating |-> FALSE]

\* Step 3 of autoLoad: load the original map through the host, then write
\* the caches.
autoLoadInitial(world, mapData, options, compressedFile, chunksFile) ==
  LET loaded == loadMap(world, ObjectOf(mapData.blocks), mapData.entities)
      shouldCreateChunks ==
        /\ HasChunkLoader(options) /\ ~options.simple
        /\ ~options.compressionOnly /\ options.preferChunks # "false"
  IN With(compress(mapData, CompressorOptionsOf(options)),
       LAMBDA compressed :
         IF compressed.threw
         THEN [done |-> TRUE, threw |-> TRUE, world |-> loaded, method |-> NoMethod,
               compressedFile |-> compressedFile, chunksFile |-> chunksFile,
               regenerating |-> FALSE]
         ELSE [done |-> TRUE, threw |-> FALSE, world |-> loaded,
               method |-> "initial-compression",
               compressedFile |->
                 FileOf(With(FullArtifact(compressed, mapData, MapHash(mapData)),
                             JsonFile)),
               chunksFile |->
                 IF shouldCreateChunks
                 THEN FileOf(precomputeChunks(MapEntries(mapData.blocks)))
                 ELSE chunksFile,
               regenerating |-> FALSE])

\* MapCompression.autoLoad(): the three steps in turn, each entered when
\* the one before did not return.  The result is the world, the cache
\* files, the method recorded in the metrics, whether the call threw, and
\* whether it left regenerateCompressedFile running.
autoLoad(world, mapData, options, hasSetBlock, compressedFile, chunksFile) ==
  With(autoLoadChunks(world, mapData, options, hasSetBlock, compressedFile,
                      chunksFile),
    LAMBDA step1 :
      IF step1.done THEN step1
      ELSE With(autoLoadCompressed(step1.world, mapData, options, hasSetBlock,
                                   compressedFile, chunksFile),
             LAMBDA step2 :
               IF step2.done THEN step2
               ELSE autoLoadInitial(step2.world, mapData, options,
                                    compressedFile, chunksFile)))

\* `v${pluginVersion.replace(/\./g, '_')}` of pluginVersion '0.1.0'
VersionTag == "v0_1_0"

\* A cache file of the map in the map's directory,
\* `${baseName}.${hash}.${version}.compressed.json` or `....chunks.bin`,
\* with what it holds.
CacheFile(hash, version, type, artifact, bytes) ==
  [hash |-> hash, version |-> version, type |-> type,
   artifact |-> artifact, bytes |-> bytes]

\* The cache files in the directory: the two at the paths autoLoad computes
\* for the map, when they exist, and the others.
Directory(mapHash, compressed, chunks, others) ==
  others
  \cup (IF compressed.exists
        THEN {CacheFile(mapHash, VersionTag, "compressed", compressed.content, << >>)}
        ELSE {})
  \cup (IF chunks.exists
        THEN {CacheFile(mapHash, VersionTag, "chunks", NoArtifact, chunks.content)}
        ELSE {})

\* The cache files of the directory that have the given hash and version.
CurrentCaches(dir, mapHash, version) ==
  {f \in dir : f.hash = mapHash /\ f.version = version}

\* fs.existsSync and fs.readFileSync of a cache path
CompressedAt(dir, mapHash) ==
  IF \E f \in CurrentCaches(dir, mapHash, VersionTag) : f.type = "compressed"
  THEN FileOf((CHOOSE f \in CurrentCaches(dir, mapHash, VersionTag) :
                 f.type = "compressed").artifact)
  ELSE NoFile

ChunksAt(dir, mapHash) ==
  IF \E f \in CurrentCaches(dir, mapHash, VersionTag) : f.type = "chunks"
  THEN FileOf((CHOOSE f \in CurrentCaches(dir, mapHash, VersionTag) :
                 f.type = "chunks").bytes)
  ELSE NoFile

\* A cleanup that removes nothing.
cleanupNothing(dir, currentHash, currentVersion) == dir

\* MapCompression.cleanupOldCaches(dir, baseName, currentHash,
\* currentVersion): every cache file of the map matches the pattern; a name
\* holds its hash and its version tag once each, so file.includes(...) is the
\* comparison of that part of the name.
cleanupOldCaches(dir, currentHash, currentVersion) ==
  {file \in dir : ~(file.hash # currentHash \/ file.version # currentVersion)}

\* MapCompression.regenerateCompressedFile: the file it writes, if any.
regenerateCompressedFile(mapData, options, compressedFile) ==
  With(compress(mapData, CompressorOptionsOf(options)),
    LAMBDA compressed :
      IF compressed.threw THEN compressedFile
      ELSE FileOf(With(FullArtifact(compressed, mapData, MapHash(mapData)),
                       JsonFile)))

\* ------------------------------------------------------------------------
\* DeltaEncoder
\* ------------------------------------------------------------------------

\* a !== b on numbers
StrictNotEqual(a, b) == a.k = "nan" \/ b.k = "nan" \/ a # b

\* The comparator of sortBlocksSpatially.
SpatialComparator(a, b) ==
  IF StrictNotEqual(a.y, b.y) THEN JsSub(a.y, b.y)
  ELSE IF StrictNotEqual(a.x, b.x) THEN JsSub(a.x, b.x)
  ELSE JsSub(a.z, b.z)

\* parsed.sort(...): stable, as Array.prototype.sort is.
RECURSIVE SpatialInsert(_, _)
SpatialInsert(sorted, e) ==
  IF sorted = << >> THEN <<e>>
  ELSE IF JsLess(SpatialComparator(e, sorted[Len(sorted)]), Num(0))
       THEN Append(SpatialInsert(SubSeq(sorted, 1, Len(sorted) - 1), e),
                   sorted[Len(sorted)])
       ELSE Append(sorted, e)

RECURSIVE SpatialSort(_)
SpatialSort(arr) ==
  IF arr = << >> THEN << >>
  ELSE SpatialInsert(SpatialSort(SubSeq(arr, 1, Len(arr) - 1)), arr[Len(arr)])

\* DeltaEncoder.sortBlocksSpatially(blocks)
sortBlocksSpatially(blocks) ==
  SpatialSort([i \in 1..Len(blocks) |->
                 With(ParseCoord(blocks[i].key),
                   LAMBDA c : [x |-> c.x, y |-> c.y, z |-> c.z,
                               id |-> Num(blocks[i].id)])])

\* The loop of DeltaEncoder.calculateBounds over the parsed blocks.
RECURSIVE DeltaBoundsLoop(_, _, _)
DeltaBoundsLoop(blocks, i, b) ==
  IF i > Len(blocks) THEN b
  ELSE DeltaBoundsLoop(blocks, i + 1,
         [minX |-> MathMin(b.minX, blocks[i].x), minY |-> MathMin(b.minY, blocks[i].y),
          minZ |-> MathMin(b.minZ, blocks[i].z), maxX |-> MathMax(b.maxX, blocks[i].x),
          maxY |-> MathMax(b.maxY, blocks[i].y), maxZ |-> MathMax(b.maxZ, blocks[i].z)])

\* DeltaEncoder.calculateBounds(blocks)
DeltaCalculateBounds(blocks) ==
  IF Len(blocks) = 0
  THEN [minX |-> Num(0), minY |-> Num(0), minZ |-> Num(0),
        maxX |-> Num(0), maxY |-> Num(0), maxZ |-> Num(0)]
  ELSE DeltaBoundsLoop(blocks, 1,
         [minX |-> blocks[1].x, minY |-> blocks[1].y, minZ |-> blocks[1].z,
          maxX |-> blocks[1].x, maxY |-> blocks[1].y, maxZ |-> blocks[1].z])

\* The loop of encodePositions over the shifted blocks: the deltas pushed.
RECURSIVE DeltasLoop(_, _, _, _)
DeltasLoop(shiftedBlocks, i, last, deltas) ==
  IF i > Len(shiftedBlocks) THEN deltas
  ELSE DeltasLoop(shiftedBlocks, i + 1, shiftedBlocks[i],
         deltas \o <<JsSub(shiftedBlocks[i].x, last.x),
                     JsSub(shiftedBlocks[i].y, last.y),
                     JsSub(shiftedBlocks[i].z, last.z)>>)

\* DeltaEncoder.encodePositions(blocks)
encodePositions(blocks) ==
  With(sortBlocksSpatially(blocks),
    LAMBDA sortedBlocks :
      With(DeltaCalculateBounds(sortedBlocks),
        LAMBDA bounds :
          With([i \in 1..Len(sortedBlocks) |->
                  [x |-> JsSub(sortedBlocks[i].x, bounds.minX),
                   y |-> JsSub(sortedBlocks[i].y, bounds.minY),
                   z |-> JsSub(sortedBlocks[i].z, bounds.minZ),
                   id |-> sortedBlocks[i].id]],
            LAMBDA shiftedBlocks :
              [deltas |-> DeltasLoop(shiftedBlocks, 1,
                                     [x |-> Num(0), y |-> Num(0), z |-> Num(0)],
                                     << >>),
               blockIds |-> [i \in 1..Len(shiftedBlocks) |-> shiftedBlocks[i].id],
               bounds |-> bounds])))

\* deltas[deltaIndex]: undefined past the end of the array (deltaIndex is
\* 0-based).
DeltaAt(deltas, deltaIndex) ==
  IF deltaIndex < Len(deltas) THEN deltas[deltaIndex + 1] ELSE Undefined

\* The loop of decodePositions, from block i (0-based) at position pos.
RECURSIVE decodePositionsLoop(_, _, _, _, _)
decodePositionsLoop(deltas, blockIds, i, pos, blocks) ==
  IF i >= Len(blockIds) THEN blocks
  ELSE With([x |-> JsAdd(pos.x, DeltaAt(deltas, 3 * i)),
             y |-> JsAdd(pos.y, DeltaAt(deltas, (3 * i) + 1)),
             z |-> JsAdd(pos.z, DeltaAt(deltas, (3 * i) + 2))],
         LAMBDA next :
           decodePositionsLoop(deltas, blockIds, i + 1, next,
             Put(blocks, CoordKey(next.x, next.y, next.z), blockIds[i + 1])))

\* DeltaEncoder.decodePositions(deltas, blockIds, bounds)
decodePositions(deltas, blockIds, bounds) ==
  decodePositionsLoop(deltas, blockIds, 0,
                      [x |-> Num(0), y |-> Num(0), z |-> Num(0)], EmptyObject)

\* A run counter that stops at the first id.
CountRunOfOne(blockIds, i, count) == count

\* The inner loop of encodeBlockIds: the length of the run that starts at
\* blockIds[i] (i is 0-based).
RECURSIVE CountRun(_, _, _)
CountRun(blockIds, i, count) ==
  IF i + count < Len(blockIds) /\ blockIds[i + count + 1] = blockIds[i + 1]
  THEN CountRun(blockIds, i, count + 1)
  ELSE count

\* The outer loop of encodeBlockIds.
RECURSIVE encodeBlockIdsLoop(_, _, _)
encodeBlockIdsLoop(blockIds, i, encoded) ==
  IF i >= Len(blockIds) THEN encoded
  ELSE With(CountRun(blockIds, i, 1),
         LAMBDA count :
           encodeBlockIdsLoop(blockIds, i + count,
             IF count > 2
             THEN encoded \o <<0 - count, blockIds[i + 1]>>
             ELSE encoded \o [j \in 1..count |-> blockIds[i + 1]]))

\* DeltaEncoder.encodeBlockIds(blockIds)
encodeBlockIds(blockIds) ==
  With(encodeBlockIdsLoop(blockIds, 0, << >>),
    LAMBDA encoded :
      IF Len(encoded) < Len(blockIds)
      THEN [encoded |-> encoded, isRLE |-> TRUE]
      ELSE [encoded |-> blockIds, isRLE |-> FALSE])

\* The loop of decodeBlockIds stepping over a run marker by one element
\* instead of two.
RECURSIVE decodeBlockIdsLoopShortStep(_, _, _)
decodeBlockIdsLoopShortStep(encoded, i, decoded) ==
  IF i >= Len(encoded) THEN decoded
  ELSE IF encoded[i + 1] < 0
       THEN decodeBlockIdsLoopShortStep(encoded, i + 1,
              decoded \o [j \in 1..(0 - encoded[i + 1]) |->
                            IF i + 1 < Len(encoded) THEN encoded[i + 2]
                            ELSE "undefined"])
       ELSE decodeBlockIdsLoopShortStep(encoded, i + 1,
                                        Append(decoded, encoded[i + 1]))

\* The loop of decodeBlockIds; encoded[i + 1] past the end is undefined.
RECURSIVE decodeBlockIdsLoop(_, _, _)
decodeBlockIdsLoop(encoded, i, decoded) ==
  IF i >= Len(encoded) THEN decoded
  ELSE IF encoded[i + 1] < 0
       THEN decodeBlockIdsLoop(encoded, i + 2,
              decoded \o [j \in 1..(0 - encoded[i + 1]) |->
                            IF i + 1 < Len(encoded) THEN encoded[i + 2]
                            ELSE "undefined"])
       ELSE decodeBlockIdsLoop(encoded, i + 1, Append(decoded, encoded[i + 1]))

\* DeltaEncoder.decodeBlockIds(encoded, isRLE)
decodeBlockIds(encoded, isRLE) ==
  IF ~isRLE THEN encoded ELSE decodeBlockIdsLoop(encoded, 0, << >>)

\* ------------------------------------------------------------------------
\* The codec as a state machine: a caller builds a compressor, compresses a
\* map, builds an artifact from the result and hands it to decompress.
\* ------------------------------------------------------------------------

VARIABLES
  mapData,      \* the map given to compress
  compression,  \* options.compression as the caller passed it
  pc,           \* "start", "compressed", "compressFailed", "artifact", "done"
  result,       \* what compress returned or raised
  artifact,     \* the compressed map given to decompress
  origin,       \* which code built the artifact
  tamper,       \* what happened to the artifact between writer and reader
  output        \* what decompress returned or raised

codecVars == <<mapData, compression, pc, result, artifact, origin, tamper, output>>

\* One value written by a varint writer into a buffer and read back.
VARIABLES
  varintValue,   \* the value written
  varintBuffer,  \* the buffer, as allocUnsafe left it and then as written
  varintStart,   \* the offset the writer starts at
  varintEnd,     \* the offset after the write
  varintWriter,  \* which writer wrote
  varintRead,    \* what the reader returned, zigzag-decoded
  varintZigzag,  \* encodeZigzag of the value, and decodeZigzag of that
  varintPc       \* "idle", "start", "written", "read", "zigzagged"

varintVars ==
  <<varintValue, varintBuffer, varintStart, varintEnd, varintWriter, varintRead,
    varintZigzag, varintPc>>

\* A server that calls autoLoad when it starts.
VARIABLES
  mapFile,         \* the original map file
  loaderOptions,   \* this.options after the configuration was assigned
  hostSetBlock,    \* whether the host world has a setBlock method
  compressedFile,  \* the compressed cache of the map's hash
  chunksFile,      \* the pre-computed chunks of the map's hash
  world,           \* the world of the running server
  loadMethod,      \* metrics.method of the last autoLoad
  regenerating,    \* regenerateCompressedFile was started and has not written
  loaderPc,        \* "idle", "stopped", "running", "failed"
  otherCaches,     \* the cache files of the map with another hash or version
  cacheHistory     \* "cold"; "warm" since an autoLoad succeeded; "changed"
                   \* since the map file was edited after that

loaderVars ==
  <<mapFile, loaderOptions, hostSetBlock, compressedFile, chunksFile, world,
    loadMethod, regenerating, loaderPc, otherCaches, cacheHistory>>

\* A caller of DeltaEncoder: one map through encodePositions and
\* decodePositions, or one id sequence through encodeBlockIds and
\* decodeBlockIds.
VARIABLES
  deltaBlocks,   \* the blocks given to encodePositions
  deltaIds,      \* the block ids given to encodeBlockIds
  deltaEncoded,  \* what encodePositions returned
  deltaDecoded,  \* what decodePositions returned
  rleEncoded,    \* what encodeBlockIds returned
  rleDecoded,    \* what decodeBlockIds returned
  deltaPc        \* "idle", "map", "encoded", "decoded", "ids", "rle", "unrle"

deltaVars ==
  <<deltaBlocks, deltaIds, deltaEncoded, deltaDecoded, rleEncoded, rleDecoded,
    deltaPc>>

\* Calls of compress and decompress in flight together on one event loop.
VARIABLES
  calls,  \* each call: its kind, its argument, where it is, what it returned
  heap    \* the Buffers allocated so far, by allocation number

callVars == <<calls, heap>>

\* A program that hands a value to MapCompression.loadMap.
VARIABLES
  loadGiven,  \* the value: a map, or something compress produced
  loadPc      \* "idle", "start", "given", "loaded", "failed"

loadVars == <<loadGiven, loadPc>>

\* An array of integers encoded by VarintEncoder.encodeArray and decoded by
\* VarintEncoder.decodeArray.
VARIABLES
  arrayValues,   \* the array given to encodeArray
  arrayFill,     \* what Buffer.allocUnsafe left in the bytes of the buffer
  arrayBuffer,   \* the buffer encodeArray returned
  arrayDecoded,  \* the array decodeArray returned
  arrayPc        \* "idle", "start", "encoded", "decoded"

arrayVars == <<arrayValues, arrayFill, arrayBuffer, arrayDecoded, arrayPc>>

\* FastLoader.load choosing its loading method.
VARIABLES
  pick,        \* the block count of the map and the options of the loader
  pickMethod,  \* the method load settled on
  pickPc       \* "idle", "start", "picked"

pickVars == <<pick, pickMethod, pickPc>>

\* world.loadMap and the two MonkeyPatchLoaders that replace it.
VARIABLES
  patchOptions,    \* the options given to the MapCompression constructor
  currentLoadMap,  \* the function world.loadMap holds
  mcOriginal,      \* originalLoadMap of MapCompression's own patcher
  flOriginal,      \* originalLoadMap of the FastLoader's patcher
  patchCall,       \* what the last call of world.loadMap did
  patchPc          \* "idle", "new", "ready", "cleaned"

patchVars ==
  <<patchOptions, currentLoadMap, mcOriginal, flOriginal, patchCall, patchPc>>

vars == <<codecVars, varintVars, loaderVars, deltaVars, callVars, loadVars, arrayVars, pickVars, patchVars>>

\* The server when a specification is about another part of the library.
LoaderIdle ==
  /\ mapFile = [blocks |-> << >>, blockTypes |-> "undefined",
                entities |-> "undefined", version |-> "undefined"]
  /\ loaderOptions = [simple |-> FALSE, method |-> "undefined",
                      useChunks |-> "undefined", optimizationEnabled |-> TRUE,
                      monkeyPatch |-> FALSE, preferChunks |-> "undefined",
                      compressionOnly |-> FALSE, algorithm |-> "undefined"]
  /\ hostSetBlock = FALSE
  /\ compressedFile = NoFile
  /\ chunksFile = NoFile
  /\ world = FreshWorld
  /\ loadMethod = NoMethod
  /\ regenerating = FALSE
  /\ loaderPc = "idle"
  /\ otherCaches = {}
  /\ cacheHistory = "cold"

NoPositions ==
  [deltas |-> << >>, blockIds |-> << >>,
   bounds |-> [minX |-> Num(0), minY |-> Num(0), minZ |-> Num(0),
               maxX |-> Num(0), maxY |-> Num(0), maxZ |-> Num(0)]]

NoRle == [encoded |-> << >>, isRLE |-> FALSE]

\* DeltaEncoder when a specification is about another part of the library.
DeltaIdle ==
  /\ deltaBlocks = << >>
  /\ deltaIds = << >>
  /\ deltaEncoded = NoPositions
  /\ deltaDecoded = EmptyObject
  /\ rleEncoded = NoRle
  /\ rleDecoded = << >>
  /\ deltaPc = "idle"

\* No call in flight, when a specification is about another part.
CallsIdle ==
  /\ calls = << >>
  /\ heap = << >>

\* A value that is a plain map, and one that came out of the compressor.
GivenMap(m) == [kind |-> "map", map |-> m, artifact |-> NoArtifact]
GivenCompressed(a) ==
  [kind |-> "compressed",
   map |-> [blocks |-> << >>, blockTypes |-> "undefined",
            entities |-> "undefined", version |-> "undefined"],
   artifact |-> a]

\* Nothing is handed to loadMap, when a specification is about another part.
LoadIdle ==
  /\ loadGiven = GivenCompressed(NoArtifact)
  /\ loadPc = "idle"

\* No array is being encoded, when a specification is about another part.
ArrayIdle ==
  /\ arrayValues = << >>
  /\ arrayFill = 0
  /\ arrayBuffer = << >>
  /\ arrayDecoded = << >>
  /\ arrayPc = "idle"

\* No method is being chosen, when a specification is about another part.
NoPick ==
  [blockCount |-> 0, through |-> "none", method |-> "undefined",
   optimizationEnabled |-> "undefined", useChunks |-> "undefined",
   monkeyPatch |-> FALSE, simple |-> FALSE]

PickIdle ==
  /\ pick = NoPick
  /\ pickMethod = "none"
  /\ pickPc = "idle"

\* No world is being patched, when a specification is about another part.
NoPatchOptions == [monkeyPatching |-> FALSE, method |-> "undefined", simple |-> FALSE]

NoPatchCall == [made |-> FALSE, threw |-> FALSE, ran |-> "none", given |-> "none",
                passed |-> "none"]

PatchIdle ==
  /\ patchOptions = NoPatchOptions
  /\ currentLoadMap = "host"
  /\ mcOriginal = "none"
  /\ flOriginal = "null"
  /\ patchCall = NoPatchCall
  /\ patchPc = "idle"

\* Bounds of the inputs.
MaxBlocks == 2
MaxCut == 2

\* Coordinate keys of the input maps: neighbours around the origin, a
\* negative coordinate, two voxels 2*10^8 apart on every axis, a voxel at
\* 2^30, and a key whose first component is not a number.
Keys ==
  {"0,0,0", "0,0,1", "1,0,0", "-1,2,0", "200000000,0,200000000",
   "0,200000000,0", "1073741824,0,0", "a,0,0"}

BlockIds == {1, 2}

Entries == [key : Keys, id : BlockIds]

\* The blocks of a map in insertion order: at most MaxBlocks entries with
\* distinct keys.
BlockLists ==
  UNION {{b \in [1..n -> Entries] :
            \A i, j \in 1..n : i # j => b[i].key # b[j].key} : n \in 0..MaxBlocks}

Maps ==
  {[blocks |-> b, blockTypes |-> "blockTypes", entities |-> "entities",
    version |-> "undefined"] : b \in BlockLists}

\* What a caller passes as options.compression: nothing, every supported
\* algorithm with every pipeline combination, or the algorithm alone.
CallerOptions ==
  {NoCompressionOptions}
  \cup {[given |-> TRUE, algorithm |-> a, useDelta |-> f[1], useVarint |-> f[2]] :
          a \in {"brotli", "gzip", "none"},
          f \in {<<"true", "true">>, <<"true", "false">>, <<"false", "false">>}}
  \cup {[given |-> TRUE, algorithm |-> "gzip", useDelta |-> "undefined",
         useVarint |-> "undefined"]}

NoResult ==
  [threw |-> FALSE, error |-> "", data |-> << >>, blockTypes |-> "undefined",
   bounds |-> NoBounds, version |-> "undefined", blockCount |-> 0]

NoOutput ==
  [threw |-> FALSE, error |-> "", blocks |-> EmptyObject,
   blockTypes |-> "undefined", entities |-> "undefined", version |-> "undefined"]

CodecInit ==
  /\ mapData \in Maps
  /\ compression \in CallerOptions
  /\ pc = "start"
  /\ result = NoResult
  /\ artifact = NoArtifact
  /\ origin = "none"
  /\ tamper = "none"
  /\ output = NoOutput

CodecIdle ==
  /\ mapData = [blocks |-> << >>, blockTypes |-> "undefined",
                entities |-> "undefined", version |-> "undefined"]
  /\ compression = NoCompressionOptions
  /\ pc = "idle"
  /\ result = NoResult
  /\ artifact = NoArtifact
  /\ origin = "none"
  /\ tamper = "none"
  /\ output = NoOutput

\* new MapCompressor(options).compress(mapData)
Compress ==
  /\ pc = "start"
  /\ result' = compress(mapData, MapCompressorOptions(compression))
  /\ pc' = IF result'.threw THEN "compressFailed" ELSE "compressed"
  /\ UNCHANGED <<mapData, compression, artifact, origin, tamper, output, varintVars, loaderVars, deltaVars, callVars, loadVars, arrayVars, pickVars, patchVars>>

\* compressor.createCompressedMap(result, mapData)
CreateCompressedMap ==
  /\ pc = "compressed"
  /\ artifact' = createCompressedMap(result, mapData, MapCompressorOptions(compression))
  /\ origin' = "createCompressedMap"
  /\ pc' = "artifact"
  /\ UNCHANGED <<mapData, compression, result, tamper, output, varintVars, loaderVars, deltaVars, callVars, loadVars, arrayVars, pickVars, patchVars>>

\* The README's simple mode and benchmark-real-map.ts: decompress(compressed)
PassResult ==
  /\ pc = "compressed"
  /\ artifact' = ResultAsArtifact(result)
  /\ origin' = "result"
  /\ pc' = "artifact"
  /\ UNCHANGED <<mapData, compression, result, tamper, output, varintVars, loaderVars, deltaVars, callVars, loadVars, arrayVars, pickVars, patchVars>>

\* examples/basic-compression.ts: an artifact without options
BuildExampleArtifact ==
  /\ pc = "compressed"
  /\ artifact' = ExampleArtifact(result, mapData)
  /\ origin' = "example"
  /\ pc' = "artifact"
  /\ UNCHANGED <<mapData, compression, result, tamper, output, varintVars, loaderVars, deltaVars, callVars, loadVars, arrayVars, pickVars, patchVars>>

\* test-integrity.ts: algorithm brotli, options {true, true}
BuildIntegrityArtifact ==
  /\ pc = "compressed"
  /\ artifact' = FullArtifact(result, mapData, "undefined")
  /\ origin' = "integrity"
  /\ pc' = "artifact"
  /\ UNCHANGED <<mapData, compression, result, tamper, output, varintVars, loaderVars, deltaVars, callVars, loadVars, arrayVars, pickVars, patchVars>>

\* The stream inside the artifact's payload.
PayloadStream(a) == decompressFromBase64(a.data, a.algorithm).data

\* The artifact reaches the reader with the last k bytes of its stream
\* missing, inside an intact container.
TruncatePayload(k) ==
  /\ pc = "artifact" /\ tamper = "none" /\ origin = "createCompressedMap"
  /\ k <= Len(PayloadStream(artifact))
  /\ artifact' =
       [artifact EXCEPT !.data =
          compressToBase64(Slice0(PayloadStream(artifact),
                                  Len(PayloadStream(artifact)) - k),
                           artifact.algorithm)]
  /\ tamper' = "truncated"
  /\ UNCHANGED <<mapData, compression, pc, result, origin, output, varintVars, loaderVars, deltaVars, callVars, loadVars, arrayVars, pickVars, patchVars>>

\* The artifact reaches the reader without one of its fields.
DropField(field) ==
  /\ pc = "artifact" /\ tamper = "none" /\ origin = "createCompressedMap"
  /\ artifact' = [artifact EXCEPT !.has = @ \ {field}]
  /\ tamper' = "dropped"
  /\ UNCHANGED <<mapData, compression, pc, result, origin, output, varintVars, loaderVars, deltaVars, callVars, loadVars, arrayVars, pickVars, patchVars>>

\* The artifact reaches the reader with an algorithm tag the library does
\* not know.
RetagAlgorithm(tag) ==
  /\ pc = "artifact" /\ tamper = "none" /\ origin = "createCompressedMap"
  /\ artifact' = [artifact EXCEPT !.algorithm = tag]
  /\ tamper' = "retagged"
  /\ UNCHANGED <<mapData, compression, pc, result, origin, output, varintVars, loaderVars, deltaVars, callVars, loadVars, arrayVars, pickVars, patchVars>>

\* new MapDecompressor().decompress(artifact)
Decompress ==
  /\ pc = "artifact"
  /\ output' = decompress(artifact)
  /\ pc' = "done"
  /\ UNCHANGED <<mapData, compression, result, artifact, origin, tamper, varintVars, loaderVars, deltaVars, callVars, loadVars, arrayVars, pickVars, patchVars>>

RequiredFields == {"version", "algorithm", "data", "blockTypes"}
UnknownTags == {"lz4"}

\* ------------------------------------------------------------------------
\* One varint: written by the compressor or by VarintEncoder, read back by
\* readVarintFast and decodeZigzag
\* ------------------------------------------------------------------------

MaxStart == 2

\* Room for the longest varint after the start offset.
VarintRoom == 6

\* Values around every length boundary of the zigzag varint.
VarintValues ==
  {0, -1, 1, -2, -150, 63, 64, -64, -65, 127, 128, -128, 8191, 8192, -8192, -8193,
   1048575, 1048576, -1048576, -1048577,
   134217727, 134217728, -134217728, -134217729,
   Pow2(30) - 1, Pow2(30), 0 - Pow2(30), (0 - Pow2(30)) - 1, MaxInt32, MinInt32}

\* What Buffer.allocUnsafe may have left in each byte.
FillBytes == {0, 255}

NoRead == [value |-> 0, offset |-> 0]

NoZigzag == [code |-> 0, back |-> 0]

VarintIdle ==
  /\ varintValue = 0
  /\ varintBuffer = << >>
  /\ varintStart = 0
  /\ varintEnd = 0
  /\ varintWriter = "none"
  /\ varintRead = NoRead
  /\ varintZigzag = NoZigzag
  /\ varintPc = "idle"

VarintInit ==
  /\ CodecIdle
  /\ LoaderIdle
  /\ DeltaIdle
  /\ CallsIdle
  /\ LoadIdle
  /\ ArrayIdle /\ PickIdle /\ PatchIdle
  /\ varintValue \in VarintValues
  /\ varintStart \in 0..MaxStart
  /\ \E fill \in FillBytes : varintBuffer = allocUnsafe(varintStart + VarintRoom, fill)
  /\ varintEnd = 0
  /\ varintWriter = "none"
  /\ varintRead = NoRead
  /\ varintZigzag = NoZigzag
  /\ varintPc = "start"

\* offset = this.writeVarint(value, buffer, offset) in MapCompressor.compress
CompressorWriteVarint ==
  /\ varintPc = "start"
  /\ LET w == writeVarint(Num(varintValue), varintBuffer, varintStart)
     IN /\ varintBuffer' = w.buffer
        /\ varintEnd' = w.offset
  /\ varintWriter' = "MapCompressor.writeVarint"
  /\ varintPc' = "written"
  /\ UNCHANGED <<varintValue, varintStart, varintRead, varintZigzag, codecVars,
                 loaderVars, deltaVars, callVars, loadVars, arrayVars, pickVars, patchVars>>

\* offset = VarintEncoder.writeSignedVarint(buffer, offset, value)
EncoderWriteSignedVarint ==
  /\ varintPc = "start"
  /\ LET w == writeSignedVarint(varintBuffer, varintStart, Num(varintValue))
     IN /\ varintBuffer' = w.buffer
        /\ varintEnd' = w.offset
  /\ varintWriter' = "VarintEncoder.writeSignedVarint"
  /\ varintPc' = "written"
  /\ UNCHANGED <<varintValue, varintStart, varintRead, varintZigzag, codecVars,
                 loaderVars, deltaVars, callVars, loadVars, arrayVars, pickVars, patchVars>>

\* VarintEncoder.writeVarint(buffer, offset, VarintEncoder.encodeZigzag(value))
EncoderWriteVarint ==
  /\ varintPc = "start"
  /\ LET w == VarintEncoder_writeVarint(varintBuffer, varintStart,
                                        encodeZigzag(Num(varintValue)))
     IN /\ varintBuffer' = w.buffer
        /\ varintEnd' = w.offset
  /\ varintWriter' = "VarintEncoder.writeVarint"
  /\ varintPc' = "written"
  /\ UNCHANGED <<varintValue, varintStart, varintRead, varintZigzag, codecVars,
                 loaderVars, deltaVars, callVars, loadVars, arrayVars, pickVars, patchVars>>

\* VarintEncoder.decodeZigzag(VarintEncoder.encodeZigzag(value))
Zigzag ==
  /\ varintPc = "start"
  /\ \E code \in {encodeZigzag(Num(varintValue))} :
        varintZigzag' = [code |-> code, back |-> decodeZigzag(Num(code))]
  /\ varintPc' = "zigzagged"
  /\ UNCHANGED <<varintValue, varintBuffer, varintStart, varintEnd, varintWriter,
                 varintRead, codecVars, loaderVars, deltaVars, callVars, loadVars, arrayVars, pickVars, patchVars>>

\* const r = VarintEncoder.readVarintFast(buffer, offset);
\* VarintEncoder.decodeZigzag(r.value), as decodeVarintDelta reads a field.
ReadBack ==
  /\ varintPc = "written"
  /\ LET r == readVarintFast(varintBuffer, varintStart)
     IN varintRead' = [value |-> decodeZigzag(Num(r.value)), offset |-> r.offset]
  /\ varintPc' = "read"
  /\ UNCHANGED <<varintValue, varintBuffer, varintStart, varintEnd, varintWriter,
                 varintZigzag, codecVars, loaderVars, deltaVars, callVars, loadVars, arrayVars, pickVars, patchVars>>

VarintNext ==
  \/ CompressorWriteVarint
  \/ EncoderWriteSignedVarint
  \/ EncoderWriteVarint
  \/ Zigzag
  \/ ReadBack

VarintSpec == VarintInit /\ [][VarintNext]_vars

\* ------------------------------------------------------------------------
\* A server that loads its map with autoLoad each time it starts
\* ------------------------------------------------------------------------

\* Maps of the server: voxels within int32 range on both sides of the
\* origin, with or without entities.
LoaderKeys == {"0,0,0", "-1,20,3"}

LoaderBlockLists ==
  UNION {{b \in [1..n -> [key : LoaderKeys, id : BlockIds]] :
            \A i, j \in 1..n : i # j => b[i].key # b[j].key} : n \in 0..MaxBlocks}

LoaderMaps ==
  {[blocks |-> b, blockTypes |-> "blockTypes", entities |-> e,
    version |-> "undefined"] : b \in LoaderBlockLists, e \in {"entities", "undefined"}}

\* this.options as autoLoad leaves it after Object.assign(this.options,
\* config): `simple` comes from the constructor, the rest from the
\* configuration files, whose features enable compression and decompression.
LoaderOptions ==
  [simple : BOOLEAN,
   method : {"undefined", "default", "hybrid", "chunks", "monkeypatch"},
   useChunks : {"undefined", "false"},
   optimizationEnabled : {TRUE},
   monkeyPatch : BOOLEAN,
   preferChunks : {"undefined", "false"},
   compressionOnly : BOOLEAN,
   algorithm : {"undefined"}]

LoaderInit ==
  /\ CodecIdle
  /\ VarintIdle
  /\ DeltaIdle
  /\ CallsIdle
  /\ LoadIdle
  /\ ArrayIdle /\ PickIdle /\ PatchIdle
  /\ mapFile \in LoaderMaps
  /\ loaderOptions \in LoaderOptions
  /\ hostSetBlock \in BOOLEAN
  /\ compressedFile = NoFile
  /\ chunksFile = NoFile
  /\ world = FreshWorld
  /\ loadMethod = NoMethod
  /\ regenerating = FALSE
  /\ loaderPc = "stopped"
  /\ otherCaches = {}
  /\ cacheHistory = "cold"

\* The server starts: new MapCompression(world).autoLoad()
AutoLoad ==
  /\ loaderPc = "stopped"
  /\ \E r \in {autoLoad(FreshWorld, mapFile, loaderOptions, hostSetBlock,
                         compressedFile, chunksFile)} :
        /\ world' = r.world
        /\ \E dir \in {IF r.threw
                        THEN Directory(MapHash(mapFile), r.compressedFile,
                                       r.chunksFile, otherCaches)
                        ELSE cleanupOldCaches(
                               Directory(MapHash(mapFile), r.compressedFile,
                                         r.chunksFile, otherCaches),
                               MapHash(mapFile), VersionTag)} :
              /\ compressedFile' = CompressedAt(dir, MapHash(mapFile))
              /\ chunksFile' = ChunksAt(dir, MapHash(mapFile))
              /\ otherCaches' = dir \ CurrentCaches(dir, MapHash(mapFile), VersionTag)
        /\ loadMethod' = r.method
        /\ regenerating' = r.regenerating
        /\ loaderPc' = IF r.threw THEN "failed" ELSE "running"
        /\ cacheHistory' = IF r.threw THEN cacheHistory ELSE "warm"
  /\ UNCHANGED <<mapFile, loaderOptions, hostSetBlock, codecVars, varintVars, deltaVars, callVars, loadVars, arrayVars, pickVars, patchVars>>

\* The regenerateCompressedFile call autoLoad did not wait for writes its
\* file.
RegenerateCompressedFile ==
  /\ regenerating
  /\ compressedFile' = regenerateCompressedFile(mapFile, loaderOptions, compressedFile)
  /\ regenerating' = FALSE
  /\ UNCHANGED <<mapFile, loaderOptions, hostSetBlock, chunksFile, world,
                 loadMethod, loaderPc, otherCaches, cacheHistory, codecVars, varintVars, deltaVars, callVars, loadVars, arrayVars, pickVars, patchVars>>

\* The server process ends; its world goes with it, the cache files stay.
StopServer ==
  /\ loaderPc \in {"running", "failed"}
  /\ world' = FreshWorld
  /\ regenerating' = FALSE
  /\ loaderPc' = "stopped"
  /\ UNCHANGED <<mapFile, loaderOptions, hostSetBlock, compressedFile, chunksFile,
                 loadMethod, otherCaches, cacheHistory, codecVars, varintVars, deltaVars, callVars, loadVars, arrayVars, pickVars, patchVars>>

\* Between two runs the compressed cache file is removed from the disk: the
\* case the chunks step of autoLoad looks for before it regenerates the file.
RemoveCompressedFile ==
  /\ loaderPc = "stopped"
  /\ compressedFile.exists
  /\ compressedFile' = NoFile
  /\ cacheHistory' = "cold"
  /\ UNCHANGED <<mapFile, loaderOptions, hostSetBlock, chunksFile, world,
                 loadMethod, regenerating, loaderPc, otherCaches, codecVars, varintVars, deltaVars, callVars, loadVars, arrayVars, pickVars, patchVars>>

LoaderNext ==
  \/ AutoLoad
  \/ RegenerateCompressedFile
  \/ StopServer
  \/ RemoveCompressedFile

LoaderSpec == LoaderInit /\ [][LoaderNext]_vars

\* ------------------------------------------------------------------------
\* A server whose map file is edited between runs, in a directory that
\* holds cache files of earlier contents and of an earlier plugin version
\* ------------------------------------------------------------------------

CacheMaps ==
  {[blocks |-> b, blockTypes |-> "blockTypes", entities |-> "entities",
    version |-> "undefined"] :
     b \in {l \in LoaderBlockLists : \A i \in 1..Len(l) : l[i].id = 1}}

\* Normal and simple mode, chunk caching on and off, and every supported
\* compression algorithm.
CacheOptions ==
  [simple : BOOLEAN,
   method : {"default", "hybrid"},
   useChunks : {"undefined"},
   optimizationEnabled : {TRUE},
   monkeyPatch : {FALSE},
   preferChunks : {"undefined", "false"},
   compressionOnly : BOOLEAN,
   algorithm : {"undefined", "gzip", "none"}]

\* Cache files an older plugin version wrote for this content, and this
\* version wrote for an older content.
StaleCaches(m) ==
  {CacheFile(MapHash(m), "v0_0_9", "compressed", NoArtifact, << >>),
   CacheFile("0badc0de", VersionTag, "chunks", NoArtifact, << >>)}

CacheInit ==
  /\ CodecIdle
  /\ VarintIdle
  /\ DeltaIdle
  /\ CallsIdle
  /\ LoadIdle
  /\ ArrayIdle /\ PickIdle /\ PatchIdle
  /\ mapFile \in CacheMaps
  /\ loaderOptions \in CacheOptions
  /\ hostSetBlock = TRUE
  /\ compressedFile = NoFile
  /\ chunksFile = NoFile
  /\ world = FreshWorld
  /\ loadMethod = NoMethod
  /\ regenerating = FALSE
  /\ loaderPc = "stopped"
  /\ otherCaches = StaleCaches(mapFile)
  /\ cacheHistory = "cold"

\* Between two runs the map file gets another content: the cache paths
\* autoLoad computes are now those of the new hash.
EditMap ==
  /\ loaderPc = "stopped"
  /\ \E m \in CacheMaps \ {mapFile} :
        /\ mapFile' = m
        /\ \E dir \in {Directory(MapHash(mapFile), compressedFile, chunksFile,
                                  otherCaches)} :
              /\ compressedFile' = CompressedAt(dir, MapHash(m))
              /\ chunksFile' = ChunksAt(dir, MapHash(m))
              /\ otherCaches' = dir \ CurrentCaches(dir, MapHash(m), VersionTag)
  /\ cacheHistory' = IF cacheHistory = "cold" THEN "cold" ELSE "changed"
  /\ UNCHANGED <<loaderOptions, hostSetBlock, world, loadMethod, regenerating,
                 loaderPc, codecVars, varintVars, deltaVars, callVars, loadVars, arrayVars, pickVars, patchVars>>

CacheNext ==
  \/ AutoLoad
  \/ RegenerateCompressedFile
  \/ StopServer
  \/ RemoveCompressedFile
  \/ EditMap

CacheSpec == CacheInit /\ [][CacheNext]_vars

\* ------------------------------------------------------------------------
\* A program that loads a map, or what it saved of one, with loadMap
\* ------------------------------------------------------------------------

\* The options of the MapCompression: every loading method, with or without
\* chunk loading and monkey patching, in normal and in simple mode.
LoadOptions == {o \in LoaderOptions : o.preferChunks = "undefined"}

LoadInit ==
  /\ CodecIdle
  /\ VarintIdle
  /\ DeltaIdle
  /\ CallsIdle
  /\ ArrayIdle /\ PickIdle /\ PatchIdle
  /\ mapFile \in LoaderMaps
  /\ loaderOptions \in LoadOptions
  /\ hostSetBlock \in BOOLEAN
  /\ compressedFile = NoFile
  /\ chunksFile = NoFile
  /\ world = ConstructedWorld(loaderOptions)
  /\ loadMethod = NoMethod
  /\ regenerating = FALSE
  /\ loaderPc = "idle"
  /\ otherCaches = {}
  /\ cacheHistory = "cold"
  /\ loadGiven = GivenCompressed(NoArtifact)
  /\ loadPc = "start"

\* README, Full Pipeline: compressed = await mc.compress(mapData), saved to a
\* file and read back.
SaveCompressResult ==
  /\ loadPc = "start"
  /\ \E r \in {compress(mapFile, MapCompressionOptions(NoCompressionOptions))} :
        /\ ~r.threw
        /\ loadGiven' = GivenCompressed(JsonFile(ResultAsArtifact(r)))
  /\ loadPc' = "given"
  /\ UNCHANGED <<loaderVars, codecVars, varintVars, deltaVars, callVars, arrayVars, pickVars, patchVars>>

\* mc.createCompressedMapFile(mapData), saved to a file and read back.
SaveCompressedMapFile ==
  /\ loadPc = "start"
  /\ \E r \in {compress(mapFile, MapCompressionOptions(NoCompressionOptions))} :
        /\ ~r.threw
        /\ loadGiven' =
             GivenCompressed(JsonFile(
               createCompressedMap(r, mapFile,
                                   MapCompressionOptions(NoCompressionOptions))))
  /\ loadPc' = "given"
  /\ UNCHANGED <<loaderVars, codecVars, varintVars, deltaVars, callVars, arrayVars, pickVars, patchVars>>

\* The program has the plain map.
TakePlainMap ==
  /\ loadPc = "start"
  /\ loadGiven' = GivenMap(mapFile)
  /\ loadPc' = "given"
  /\ UNCHANGED <<loaderVars, codecVars, varintVars, deltaVars, callVars, arrayVars, pickVars, patchVars>>

\* await mc.loadMap(data)
LoadMap ==
  /\ loadPc = "given"
  /\ \E r \in MapCompression_loadMap(world, loadGiven, loaderOptions, hostSetBlock) :
        /\ world' = r.world
        /\ loadPc' = IF r.threw THEN "failed" ELSE "loaded"
  /\ UNCHANGED <<mapFile, loaderOptions, hostSetBlock, compressedFile, chunksFile,
                 loadMethod, regenerating, loaderPc, otherCaches, cacheHistory,
                 loadGiven,
                 codecVars, varintVars, deltaVars, callVars, arrayVars, pickVars, patchVars>>

LoadNext ==
  \/ SaveCompressResult
  \/ SaveCompressedMapFile
  \/ TakePlainMap
  \/ LoadMap

LoadSpec == LoadInit /\ [][LoadNext]_vars

\* ------------------------------------------------------------------------
\* DeltaEncoder: positions of a map, and run-length encoding of block ids
\* ------------------------------------------------------------------------

MaxIds == 5

\* Block-type ids are non-negative integers.
IdValues == {0, 1, 2}

\* The id sequences of at most MaxIds ids.
IdSequences == UNION {[1..n -> IdValues] : n \in 0..MaxIds}

DeltaInit ==
  /\ CodecIdle
  /\ VarintIdle
  /\ LoaderIdle
  /\ CallsIdle
  /\ LoadIdle
  /\ ArrayIdle /\ PickIdle /\ PatchIdle
  /\ \/ /\ deltaBlocks \in BlockLists
        /\ deltaIds = << >>
        /\ deltaPc = "map"
     \/ /\ deltaBlocks = << >>
        /\ deltaIds \in IdSequences
        /\ deltaPc = "ids"
  /\ deltaEncoded = NoPositions
  /\ deltaDecoded = EmptyObject
  /\ rleEncoded = NoRle
  /\ rleDecoded = << >>

\* const { deltas, blockIds, bounds } = DeltaEncoder.encodePositions(blocks)
EncodePositions ==
  /\ deltaPc = "map"
  /\ deltaEncoded' = encodePositions(deltaBlocks)
  /\ deltaPc' = "encoded"
  /\ UNCHANGED <<deltaBlocks, deltaIds, deltaDecoded, rleEncoded, rleDecoded,
                 codecVars, varintVars, loaderVars, callVars, loadVars, arrayVars, pickVars, patchVars>>

\* const decoded = DeltaEncoder.decodePositions(deltas, blockIds, bounds)
DecodePositions ==
  /\ deltaPc = "encoded"
  /\ deltaDecoded' = decodePositions(deltaEncoded.deltas, deltaEncoded.blockIds,
                                     deltaEncoded.bounds)
  /\ deltaPc' = "decoded"
  /\ UNCHANGED <<deltaBlocks, deltaIds, deltaEncoded, rleEncoded, rleDecoded,
                 codecVars, varintVars, loaderVars, callVars, loadVars, arrayVars, pickVars, patchVars>>

\* const { encoded, isRLE } = DeltaEncoder.encodeBlockIds(blockIds)
EncodeBlockIds ==
  /\ deltaPc = "ids"
  /\ rleEncoded' = encodeBlockIds(deltaIds)
  /\ deltaPc' = "rle"
  /\ UNCHANGED <<deltaBlocks, deltaIds, deltaEncoded, deltaDecoded, rleDecoded,
                 codecVars, varintVars, loaderVars, callVars, loadVars, arrayVars, pickVars, patchVars>>

\* DeltaEncoder.decodeBlockIds(encoded, isRLE)
DecodeBlockIds ==
  /\ deltaPc = "rle"
  /\ rleDecoded' = decodeBlockIds(rleEncoded.encoded, rleEncoded.isRLE)
  /\ deltaPc' = "unrle"
  /\ UNCHANGED <<deltaBlocks, deltaIds, deltaEncoded, deltaDecoded, rleEncoded,
                 codecVars, varintVars, loaderVars, callVars, loadVars, arrayVars, pickVars, patchVars>>

DeltaNext ==
  \/ EncodePositions
  \/ DecodePositions
  \/ EncodeBlockIds
  \/ DecodeBlockIds

DeltaSpec == DeltaInit /\ [][DeltaNext]_vars

\* ------------------------------------------------------------------------
\* Two calls of compress or decompress in flight together.  A call runs
\* without interruption up to its `await` of the entropy stage, zlib reads
\* the Buffer it was handed while the call is suspended, and the call resumes
\* with zlib's output.
\* ------------------------------------------------------------------------

MaxCallBlocks == 2

CallKeys == {"0,0,0", "1,0,0", "-1,2,0"}

CallBlockLists ==
  UNION {{b \in [1..n -> [key : CallKeys, id : {1}]] :
            \A i, j \in 1..n : i # j => b[i].key # b[j].key} : n \in 0..MaxCallBlocks}

CallMaps ==
  {[blocks |-> b, blockTypes |-> "blockTypes", entities |-> "entities",
    version |-> "undefined"] : b \in CallBlockLists}

\* The compressor both compress calls go to: new MapCompressor()
CallOptions == MapCompressorOptions(NoCompressionOptions)

\* A call and its argument: compress of a map, or decompress of the artifact
\* of a map.
CallInputs ==
  {[kind |-> "compress", given |-> m] : m \in CallMaps}
  \cup {[kind |-> "decompress",
          given |-> FullArtifact(compress(m, CallOptions), m, "undefined")] :
           m \in {n \in CallMaps : n.blocks # << >>}}

NewCall(in) ==
  [kind |-> in.kind, given |-> in.given, input |-> in.given, pc |-> "start",
   overlapped |-> FALSE, buffer |-> 0, bounds |-> NoBounds,
   pending |-> [threw |-> FALSE, data |-> << >>], result |-> [threw |-> FALSE]]

\* Some other call is suspended at its await.
OthersInFlight(i) ==
  \E j \in DOMAIN calls : j # i /\ calls[j].pc \in {"entropy", "ready"}

\* One working Buffer reused by every call.
SharedBuffer(h) == 1

\* The allocation number of a new Buffer: memory no other Buffer has.
NewBuffer(h) == Len(h) + 1

\* The heap with the bytes of Buffer `id` set.
WriteBuffer(h, id, bytes) ==
  [k \in 1..(IF id > Len(h) THEN id ELSE Len(h)) |->
     IF k = id THEN bytes ELSE h[k]]

CallsInit ==
  /\ CodecIdle
  /\ VarintIdle
  /\ LoaderIdle
  /\ DeltaIdle
  /\ LoadIdle
  /\ ArrayIdle /\ PickIdle /\ PatchIdle
  /\ calls \in {<<NewCall(a), NewCall(b)>> : a, b \in CallInputs}
  /\ heap = << >>

\* compress(mapData) up to `await BrotliWrapper.compressToBase64(encodedData)`
CallCompress(i) ==
  /\ calls[i].kind = "compress"
  /\ calls[i].pc = "start"
  /\ \E e \in {EncodeStream(calls[i].input.blocks)} :
        IF e.threw
        THEN /\ calls' = [calls EXCEPT ![i].pc = "done",
                                       ![i].overlapped = OthersInFlight(i),
                                       ![i].result = FailedCompression]
             /\ heap' = heap
        ELSE \E id \in {NewBuffer(heap)} :
               /\ heap' = WriteBuffer(heap, id, e.encodedData)
               /\ calls' = [calls EXCEPT ![i].pc = "entropy",
                                         ![i].overlapped = OthersInFlight(i),
                                         ![i].buffer = id,
                                         ![i].bounds = e.bounds]
  /\ UNCHANGED <<codecVars, varintVars, loaderVars, deltaVars, loadVars, arrayVars, pickVars, patchVars>>

\* decompress(compressedData) up to
\* `await BrotliWrapper.decompressFromBase64(data, algorithm)`
CallDecompress(i) ==
  /\ calls[i].kind = "decompress"
  /\ calls[i].pc = "start"
  /\ IF InvalidFormat(calls[i].input)
     THEN /\ calls' = [calls EXCEPT
                         ![i].pc = "done",
                         ![i].overlapped = OthersInFlight(i),
                         ![i].result =
                           FailedDecompression("Invalid compressed map format")]
          /\ heap' = heap
     ELSE \E id \in {NewBuffer(heap)} :
            /\ heap' = WriteBuffer(heap, id, fromBase64(calls[i].input.data))
            /\ calls' = [calls EXCEPT ![i].pc = "entropy",
                                      ![i].overlapped = OthersInFlight(i),
                                      ![i].buffer = id]
  /\ UNCHANGED <<codecVars, varintVars, loaderVars, deltaVars, loadVars, arrayVars, pickVars, patchVars>>

\* zlib works on the Buffer a suspended call handed to it.
EntropyStage(i) ==
  /\ calls[i].pc = "entropy"
  /\ calls' =
       [calls EXCEPT
          ![i].pc = "ready",
          ![i].pending =
            IF calls[i].kind = "compress"
            THEN [threw |-> FALSE,
                  data |-> BrotliWrapper_compress(heap[calls[i].buffer],
                                                  CallOptions.algorithm)]
            ELSE BrotliWrapper_decompress(heap[calls[i].buffer],
                                          AlgorithmOf(calls[i].input))]
  /\ UNCHANGED <<heap, codecVars, varintVars, loaderVars, deltaVars, loadVars, arrayVars, pickVars, patchVars>>

\* The call continues after its await and returns.
Resume(i) ==
  /\ calls[i].pc = "ready"
  /\ calls' =
       [calls EXCEPT
          ![i].pc = "done",
          ![i].result =
            IF calls[i].kind = "compress"
            THEN CompressionResult(toBase64(calls[i].pending.data),
                                   calls[i].bounds, calls[i].input)
            ELSE DecodeDecompressed(calls[i].input, calls[i].pending)]
  /\ UNCHANGED <<heap, codecVars, varintVars, loaderVars, deltaVars, loadVars, arrayVars, pickVars, patchVars>>

CallsNext ==
  \E i \in 1..2 :
    \/ CallCompress(i)
    \/ CallDecompress(i)
    \/ EntropyStage(i)
    \/ Resume(i)

CallsSpec == CallsInit /\ [][CallsNext]_vars

\* ------------------------------------------------------------------------
\* The codec specification
\* ------------------------------------------------------------------------

Init ==
  CodecInit /\ VarintIdle /\ LoaderIdle /\ DeltaIdle /\ CallsIdle /\ LoadIdle
    /\ ArrayIdle /\ PickIdle /\ PatchIdle

Next ==
  \/ Compress
  \/ CreateCompressedMap
  \/ PassResult
  \/ BuildExampleArtifact
  \/ BuildIntegrityArtifact
  \/ \E k \in 1..MaxCut : TruncatePayload(k)
  \/ \E field \in RequiredFields : DropField(field)
  \/ \E tag \in UnknownTags : RetagAlgorithm(tag)
  \/ Decompress

Spec == Init /\ [][Next]_vars

\* ------------------------------------------------------------------------
\* Properties of the codec
\* ------------------------------------------------------------------------

\* Every component of every coordinate key of the map is a number.
WellFormed(m) ==
  \A i \in 1..Len(m.blocks) :
    LET c == ParseCoord(m.blocks[i].key)
    IN IsNum(c.x) /\ IsNum(c.y) /\ IsNum(c.z)

\* decompress returned, and its blocks are the blocks of the input map.
RoundTrips == ~output.threw /\ output.blocks = ObjectOf(mapData.blocks)

\* The compressor runs with delta, varint and brotli.
DefaultPipeline ==
  MapCompressorOptions(compression) =
    [given |-> TRUE, algorithm |-> "brotli", useDelta |-> "true",
     useVarint |-> "true"]

\* C1: for every non-empty map, compressing with the default options and
\* decompressing the artifact built with options {useDelta: true, useVarint:
\* true} returns a blocks map identical to the input.
C1_DefaultRoundTrip ==
  (/\ pc = "done" /\ origin = "integrity" /\ tamper = "none"
   /\ DefaultPipeline /\ WellFormed(mapData) /\ mapData.blocks # << >>)
  => RoundTrips

\* C2: for every map, every combination (useDelta, useVarint) of (true,true),
\* (true,false), (false,false) and every algorithm, decompressing what
\* compress and createCompressedMap produced yields exactly the map.
C2_EveryOptionRoundTrip ==
  (/\ pc = "done" /\ origin = "createCompressedMap" /\ tamper = "none"
   /\ compression.given /\ compression.useDelta # "undefined"
   /\ WellFormed(mapData))
  => RoundTrips

\* C3: the value compress returned, or an artifact built from it without an
\* options field, decompresses to the blocks of the input map.
C3_NoOptionsRoundTrip ==
  (/\ pc = "done" /\ origin \in {"result", "example"} /\ tamper = "none"
   /\ MapCompressorOptions(compression).algorithm = "brotli"
   /\ WellFormed(mapData))
  => RoundTrips

\* C4: compress accepts the empty map without raising, and the artifact
\* decompresses to the empty map.
C4_EmptyMapAccepted ==
  (pc # "start" /\ mapData.blocks = << >>)
  => /\ ~result.threw
     /\ (pc = "done" /\ tamper = "none" /\ origin = "integrity" => RoundTrips)

\* What a world holds for the host: its blocks and its entities, an empty
\* entities object being no entities.
Holds(w) ==
  [blocks |-> w.blocks,
   entities |-> IF w.entities = "{}" THEN "undefined" ELSE w.entities]

\* C5: after autoLoad, whichever of its three paths it took, the world holds
\* the blocks and the entities that a direct world.loadMap of the original
\* map file leaves in a fresh world.
C5_AutoLoadEqualsDirectLoad ==
  loaderPc # "stopped" =>
    Holds(world) = Holds(loadMap(FreshWorld, ObjectOf(mapFile.blocks),
                                 mapFile.entities))

\* C6: a payload with fewer bytes than its record count requires makes
\* decompress fail; it never returns a map.
C6_TruncatedPayloadFails ==
  (pc = "done" /\ tamper = "truncated") => output.threw

\* C7: decompress raises the format error when the artifact lacks version,
\* algorithm, data or blockTypes, before it decodes anything.
C7_MissingFieldIsFormatError ==
  (pc = "done" /\ tamper = "dropped")
  => (output.threw /\ output.error = "Invalid compressed map format")

\* C8: an artifact whose algorithm tag is not brotli, gzip or none fails with
\* the format error; the tag is never treated as a supported algorithm.
C8_UnknownAlgorithmIsFormatError ==
  (pc = "done" /\ tamper = "retagged")
  => (output.threw /\ output.error = "Invalid compressed map format")

\* C9: compress raises when a coordinate key of the input map has a
\* non-numeric component; it never encodes the record as another coordinate.
C9_MalformedKeyRejected ==
  (pc # "start" /\ ~WellFormed(mapData)) => result.threw

\* C10: for every signed 32-bit value, what the compressor writes for it is
\* read back as the same value by readVarintFast and decodeZigzag, and the
\* reader stops at the offset the writer stopped at.
C10_VarintRoundTrip ==
  (varintPc = "read" /\ varintWriter = "MapCompressor.writeVarint")
  => (varintRead.value = varintValue /\ varintRead.offset = varintEnd)

\* C11: decodeZigzag(encodeZigzag(v)) = v for every signed 32-bit v.
C11_ZigzagInverse ==
  varintPc = "zigzagged" => varintZigzag.back = varintValue

\* The zigzag of the smallest int32 is the code with every bit set, and it
\* has been decoded.
C11_Witness ==
  /\ varintPc = "zigzagged"
  /\ varintValue = MinInt32
  /\ varintZigzag.code = -1

\* The zigzag code of v (0 -> 0, -1 -> 1, 1 -> 2, -2 -> 3, ...) as the int32
\* with the same 32 bits.
ZigzagCode(v) ==
  IF v >= 0
  THEN (IF v < Pow2(30) THEN 2 * v ELSE 2 * ((v - Pow2(30)) - Pow2(30)))
  ELSE (IF v >= 0 - Pow2(30) THEN (2 * (0 - (v + 1))) + 1
        ELSE (2 * (((0 - (v + 1)) - Pow2(30)) - Pow2(30))) + 1)

\* The 7-bit groups of a 32-bit code, least-significant group first, the
\* high bit set on every byte except the last.
RECURSIVE VarintLayout(_)
VarintLayout(code) ==
  IF code >= 0 /\ code <= 127 THEN <<code>>
  ELSE <<(code % 128) + 128>> \o VarintLayout(Shr32(code, 7))

\* C12: each writer writes a value as the 7-bit groups of its zigzag code,
\* least-significant group first, with the high bit set on every byte except
\* the last; no value takes more than 5 bytes.
C12_VarintLayout ==
  varintPc = "written" =>
    /\ varintEnd - varintStart <= 5
    /\ SubSeq(varintBuffer, varintStart + 1, varintEnd)
         = VarintLayout(ZigzagCode(varintValue))

\* C13: decodeBlockIds, given the pair encodeBlockIds returned for a sequence
\* of block ids (non-negative integers), returns that sequence.
C13_RleRoundTrip ==
  deltaPc = "unrle" => rleDecoded = deltaIds

\* A sequence with a run that was replaced by a marker, next to a literal
\* id, has been decoded.
C13_Witness ==
  /\ deltaPc = "unrle"
  /\ rleEncoded.isRLE
  /\ deltaIds = <<1, 1, 1, 2>>
  /\ rleEncoded.encoded = <<-3, 1, 2>>

\* C14: decodePositions, given the deltas, the block ids and the bounds that
\* encodePositions returned for a voxel map, rebuilds that map.
C14_DeltaPositionsRoundTrip ==
  (deltaPc = "decoded" /\ WellFormed([blocks |-> deltaBlocks]))
  => deltaDecoded = ObjectOf(deltaBlocks)

\* The smallest and the largest value of an axis over the keys of a map whose
\* keys are well formed.
AxisValues(blocks, axis) == {ParseCoord(blocks[i].key)[axis].v : i \in 1..Len(blocks)}
Least(values) == CHOOSE m \in values : \A v \in values : m <= v
Greatest(values) == CHOOSE m \in values : \A v \in values : m >= v

TrueBounds(blocks) ==
  [minX |-> Num(Least(AxisValues(blocks, "x"))),
   minY |-> Num(Least(AxisValues(blocks, "y"))),
   minZ |-> Num(Least(AxisValues(blocks, "z"))),
   maxX |-> Num(Greatest(AxisValues(blocks, "x"))),
   maxY |-> Num(Greatest(AxisValues(blocks, "y"))),
   maxZ |-> Num(Greatest(AxisValues(blocks, "z")))]

\* C15: for a non-empty map, the six bounds recorded in the artifact are the
\* per-axis minimum and maximum of the map's coordinates.
C15_BoundsAreTrueExtremes ==
  (pc = "artifact" /\ mapData.blocks # << >> /\ WellFormed(mapData))
  => artifact.bounds = TrueBounds(mapData.blocks)

\* An artifact of a two-voxel map whose minimum and maximum differ on every
\* axis, one of them negative.
C15_Witness ==
  /\ pc = "artifact"
  /\ origin = "createCompressedMap"
  /\ mapData.blocks = <<[key |-> "1,0,0", id |-> 1], [key |-> "-1,2,0", id |-> 2]>>
  /\ artifact.bounds.minX = Num(-1)
  /\ artifact.bounds.maxY = Num(2)

\* What a call returns when no other call is in flight.
Alone(call) ==
  IF call.kind = "compress" THEN compress(call.given, CallOptions)
  ELSE decompress(call.given)

\* C16: two calls of compress or decompress in flight together, interleaved
\* at the entropy stage, each return what they return when run alone, and no
\* call changes the map or artifact it was given.
C16_CallsAreIndependent ==
  \A i \in DOMAIN calls :
    /\ calls[i].input = calls[i].given
    /\ calls[i].pc = "done" => calls[i].result = Alone(calls[i])

\* A compress and a decompress of different maps have both returned, and the
\* second started while the first was suspended.
C16_Witness ==
  /\ calls # << >>
  /\ calls[1].pc = "done" /\ calls[2].pc = "done"
  /\ calls[1].kind = "compress" /\ calls[2].kind = "decompress"
  /\ calls[2].overlapped
  /\ ~calls[1].result.threw /\ ~calls[2].result.threw
  /\ calls[2].result.blocks # ObjectOf(calls[1].given.blocks)

\* C17: loadMap, given the saved output of compress or a compressed
\* artifact, decompresses it and the host world receives the blocks of the
\* original map; given a plain map, the host world receives that map.
C17_LoadMapDetectsCompression ==
  (loadPc \in {"loaded", "failed"} /\ hostSetBlock)
  => /\ loadPc = "loaded"
     /\ world.blocks = ObjectOf(mapFile.blocks)

\* autoLoad starts in this step.
AutoLoadRuns == loaderPc = "stopped" /\ loaderPc' # "stopped"

\* C18: once an autoLoad of the map has succeeded, every later autoLoad of
\* the unchanged map succeeds, loads from the pre-computed chunks or from
\* the compressed cache, and does not compress the map again, whatever the
\* compression configuration.
C18_WarmLoadsFromCache ==
  [][(AutoLoadRuns /\ cacheHistory = "warm")
     => /\ loaderPc' = "running"
        /\ loadMethod' \in {"precomputed-chunks", "compressed-fast"}]_vars

\* C19: the autoLoad after an edit of the map file leaves the blocks of the
\* new content in the world, never those of a cache of another content, and
\* leaves a cache named with the new hash.
C19_ChangedMapReloads ==
  [][(AutoLoadRuns /\ cacheHistory = "changed")
     => /\ world'.blocks = ObjectOf(mapFile.blocks)
        /\ compressedFile'.exists \/ chunksFile'.exists]_vars

C23_CompressedFileRegenerated ==
  (loaderPc = "running" /\ loadMethod = "precomputed-chunks")
  => compressedFile.exists

\* The maximal runs of equal ids of a sequence, in order.
RECURSIVE Runs(_)
Runs(ids) ==
  IF ids = << >> THEN << >>
  ELSE With(Runs(Tail(ids)),
         LAMBDA rest :
           IF rest # << >> /\ rest[1].id = Head(ids)
           THEN <<[id |-> Head(ids), count |-> rest[1].count + 1]>> \o Tail(rest)
           ELSE <<[id |-> Head(ids), count |-> 1]>> \o rest)

\* Each run of more than 2 ids as the pair (-count, id), shorter runs as they
\* are.
RECURSIVE RunPairs(_)
RunPairs(runs) ==
  IF runs = << >> THEN << >>
  ELSE (IF runs[1].count > 2 THEN <<0 - runs[1].count, runs[1].id>>
        ELSE [j \in 1..runs[1].count |-> runs[1].id])
       \o RunPairs(Tail(runs))

\* C28: encodeBlockIds returns the run pairs of the ids with isRLE = true
\* when they are strictly shorter than the ids, and the ids themselves with
\* isRLE = false otherwise.
C28_EncodeBlockIdsRuns ==
  deltaPc \in {"rle", "unrle"}
  => With(RunPairs(Runs(deltaIds)),
       LAMBDA pairs :
         IF Len(pairs) < Len(deltaIds)
         THEN rleEncoded = [encoded |-> pairs, isRLE |-> TRUE]
         ELSE rleEncoded = [encoded |-> deltaIds, isRLE |-> FALSE])

\* A run of three and a run of two have been encoded.
C28_Witness ==
  /\ deltaPc = "rle"
  /\ deltaIds = <<1, 1, 1, 2, 2>>
  /\ rleEncoded = [encoded |-> <<-3, 1, 2, 2>>, isRLE |-> TRUE]

\* The stream compress handed to the entropy stage, recovered from the
\* result.
ResultStream ==
  decompressFromBase64(result.data, MapCompressorOptions(compression).algorithm).data

\* The bytes the encoding loop of compress writes for the map in a working
\* buffer of 4 bytes plus 4 integers of 5 bytes for every record.
RoomyStream(mapBlocks) ==
  With(SortBlocks(ShiftedBlocks(mapBlocks, calculateBounds(mapBlocks))),
    LAMBDA blocks :
      With(EncodeLoop(blocks, 1, [x |-> Num(0), y |-> Num(0), z |-> Num(0)],
                      writeUInt32LE(allocUnsafe(4 + (Len(blocks) * 20), 0),
                                    Len(blocks), 0), 4),
        LAMBDA w : Slice0(w.buffer, w.offset)))

\* C25: for every map the working buffer of compress has room for the
\* header and for every byte of every record, so compress returns and its
\* trimmed stream holds all the bytes the encoding loop writes.
C25_WorkingBufferLargeEnough ==
  (pc \in {"compressed", "compressFailed"} /\ WellFormed(mapData))
  => /\ pc = "compressed"
     /\ ResultStream = RoomyStream(mapData.blocks)

\* The (dx, dy, dz, id) records a varint reader finds in a stream after its
\* 4-byte record count.
RECURSIVE StreamRecords(_, _, _)
StreamRecords(stream, offset, n) ==
  IF n = 0 THEN << >>
  ELSE With(readVarintFast(stream, offset), LAMBDA rx :
       With(readVarintFast(stream, rx.offset), LAMBDA ry :
       With(readVarintFast(stream, ry.offset), LAMBDA rz :
       With(readVarintFast(stream, rz.offset), LAMBDA rid :
         <<[dx |-> decodeZigzag(Num(rx.value)), dy |-> decodeZigzag(Num(ry.value)),
            dz |-> decodeZigzag(Num(rz.value)), id |-> decodeZigzag(Num(rid.value))]>>
         \o StreamRecords(stream, rid.offset, n - 1)))))

\* A record that comes after its predecessor in the order y, then x, then z.
Ascends(r) ==
  \/ r.dy > 0
  \/ r.dy = 0 /\ r.dx > 0
  \/ r.dy = 0 /\ r.dx = 0 /\ r.dz > 0

\* The entry of the map that is first in the order y, then x, then z.
FirstInOrder(blocks) ==
  CHOOSE i \in 1..Len(blocks) :
    \A j \in 1..Len(blocks) :
      LET a == ParseCoord(blocks[i].key)
          b == ParseCoord(blocks[j].key)
      IN \/ a.y.v < b.y.v
         \/ a.y.v = b.y.v /\ a.x.v < b.x.v
         \/ a.y.v = b.y.v /\ a.x.v = b.x.v /\ a.z.v <= b.z.v

Word(stream, j) ==
  IF (4 * j) + 4 <= Len(stream) THEN Num(readInt32LE(stream, 4 * j)) ELSE Undefined

\* The (dx, dy, dz, id) quadruples of a fixed-width stream: one for every
\* four words, the last one short when the words run out.
FixedWidthRecords(stream) ==
  [i \in 1..(((Len(stream) \div 4) + 3) \div 4) |->
     [dx |-> Word(stream, 4 * (i - 1)), dy |-> Word(stream, (4 * (i - 1)) + 1),
      dz |-> Word(stream, (4 * (i - 1)) + 2), id |-> Word(stream, (4 * (i - 1)) + 3)]]

\* The quadruples of a varint stream, as numbers.
VarintRecords(stream) ==
  With(StreamRecords(stream, 4, readUInt32LE(stream, 0)),
    LAMBDA records :
      [i \in 1..Len(records) |->
         [dx |-> Num(records[i].dx), dy |-> Num(records[i].dy),
          dz |-> Num(records[i].dz), id |-> Num(records[i].id)]])

\* The blocks object records build: position i is the running sum of the
\* first i deltas, and its key is the position, plus `min` on each axis
\* when addMin.
RECURSIVE PlaceRecords(_, _, _, _, _)
PlaceRecords(records, last, addMin, min, blocks) ==
  IF records = << >> THEN blocks
  ELSE With([x |-> JsAdd(last.x, records[1].dx), y |-> JsAdd(last.y, records[1].dy),
             z |-> JsAdd(last.z, records[1].dz)],
         LAMBDA pos :
           PlaceRecords(Tail(records), pos, addMin, min,
             Put(blocks,
                 IF addMin
                 THEN CoordKey(JsAdd(pos.x, min.minX), JsAdd(pos.y, min.minY),
                               JsAdd(pos.z, min.minZ))
                 ELSE CoordKey(pos.x, pos.y, pos.z),
                 records[1].id)))

Origin == [x |-> Num(0), y |-> Num(0), z |-> Num(0)]

\* The artifact has finite numbers as its bounds minimum.
HasBoundsMinimum(a) ==
  /\ Has(a, "bounds")
  /\ a.bounds.minX.k = "num" /\ a.bounds.minY.k = "num" /\ a.bounds.minZ.k = "num"

\* C26: when decompress returns for an artifact with useDelta true and
\* useVarint not true, its blocks are the running sums of the fixed-width
\* 32-bit (dx, dy, dz, id) quadruples of the stream, without the bounds
\* minimum; for an artifact with both options true and a bounds minimum, its
\* blocks are the running sums of the varint quadruples plus the bounds
\* minimum on each axis.
C26_DeltaPathsDifferInBounds ==
  (pc = "done" /\ ~output.threw /\ Has(artifact, "options")
     /\ artifact.options.useDelta = "true")
  => IF artifact.options.useVarint = "true"
     THEN HasBoundsMinimum(artifact)
          => output.blocks = PlaceRecords(VarintRecords(PayloadStream(artifact)),
                                          Origin, TRUE, artifact.bounds, EmptyObject)
     ELSE output.blocks = PlaceRecords(FixedWidthRecords(PayloadStream(artifact)),
                                       Origin, FALSE, artifact.bounds, EmptyObject)

\* decompress has decoded two fixed-width records of an artifact whose
\* bounds minimum is not the origin.
C26_Witness ==
  /\ pc = "done" /\ ~output.threw /\ Has(artifact, "options")
  /\ artifact.options.useDelta = "true" /\ artifact.options.useVarint = "false"
  /\ HasBoundsMinimum(artifact) /\ artifact.bounds.minX # Num(0)
  /\ Len(FixedWidthRecords(PayloadStream(artifact))) = 2
  /\ Cardinality(DOMAIN output.blocks) = 2

\* ------------------------------------------------------------------------
\* VarintEncoder.encodeArray and VarintEncoder.decodeArray
\* ------------------------------------------------------------------------

\* The do-while loop of VarintEncoder.readVarint.
RECURSIVE readVarintLoop(_, _, _, _, _)
readVarintLoop(buffer, offset, value, shift, bytesRead) ==
  LET byte == ToInt32(Load(buffer, offset + bytesRead))
      value2 == Or32(value, Shl32(And32(byte, 127), shift))
  IN IF And32(byte, 128) # 0
     THEN readVarintLoop(buffer, offset, value2, shift + 7, bytesRead + 1)
     ELSE [value |-> value2, bytesRead |-> bytesRead + 1]

\* VarintEncoder.readVarint(buffer, offset)
readVarint(buffer, offset) == readVarintLoop(buffer, offset, 0, 0, 0)

\* The for-loop of encodeArray, from element i: each turn adds to offset
\* what writeVarint returns, which is the offset after the write.
RECURSIVE encodeArrayLoop(_, _, _, _)
encodeArrayLoop(values, i, buffer, offset) ==
  IF i > Len(values) THEN [buffer |-> buffer, offset |-> offset]
  ELSE With(VarintEncoder_writeVarint(buffer, offset, encodeZigzag(Num(values[i]))),
         LAMBDA w : encodeArrayLoop(values, i + 1, w.buffer, offset + w.offset))

\* VarintEncoder.encodeArray(values); `fill` is what allocUnsafe left in
\* the buffer.
encodeArray(values, fill) ==
  With(VarintEncoder_writeVarint(allocUnsafe((Len(values) * 5) + 4, fill), 0,
                                 Len(values)),
    LAMBDA count :
      With(encodeArrayLoop(values, 1, count.buffer, 0 + count.offset),
        LAMBDA w : Slice0(w.buffer, w.offset)))

\* The for-loop of decodeArray, from element i (0-based).
RECURSIVE decodeArrayLoop(_, _, _, _, _)
decodeArrayLoop(buffer, i, count, offset, values) ==
  IF i >= count THEN values
  ELSE With(readVarint(buffer, offset),
         LAMBDA r : decodeArrayLoop(buffer, i + 1, count, offset + r.bytesRead,
                                    Append(values, decodeZigzag(Num(r.value)))))

\* VarintEncoder.decodeArray(buffer): new Array(count) throws RangeError
\* for a negative count.
decodeArray(buffer) ==
  With(readVarint(buffer, 0),
    LAMBDA r :
      IF r.value < 0 THEN [threw |-> TRUE, values |-> << >>]
      ELSE [threw |-> FALSE,
            values |-> decodeArrayLoop(buffer, 0, r.value, r.bytesRead, << >>)])

MaxArray == 2

\* Elements on both sides of the one-byte and two-byte varints, and the
\* ends of the int32 range.
ArrayElements == {0, -1, 1, 63, -65, 8192, MaxInt32, MinInt32}

ArrayInputs == UNION {[1..n -> ArrayElements] : n \in 0..MaxArray}

ArrayInit ==
  /\ CodecIdle
  /\ VarintIdle
  /\ LoaderIdle
  /\ DeltaIdle
  /\ CallsIdle
  /\ LoadIdle
  /\ PickIdle /\ PatchIdle
  /\ arrayValues \in ArrayInputs
  /\ arrayFill \in FillBytes
  /\ arrayBuffer = << >>
  /\ arrayDecoded = << >>
  /\ arrayPc = "start"

\* const buffer = VarintEncoder.encodeArray(values)
EncodeArray ==
  /\ arrayPc = "start"
  /\ arrayBuffer' = encodeArray(arrayValues, arrayFill)
  /\ arrayPc' = "encoded"
  /\ UNCHANGED <<arrayValues, arrayFill, arrayDecoded, codecVars, varintVars,
                 loaderVars, deltaVars, callVars, loadVars, pickVars, patchVars>>

\* VarintEncoder.decodeArray(buffer)
DecodeArray ==
  /\ arrayPc = "encoded"
  /\ \E r \in {decodeArray(arrayBuffer)} :
        /\ arrayDecoded' = r.values
        /\ arrayPc' = IF r.threw THEN "decodeFailed" ELSE "decoded"
  /\ UNCHANGED <<arrayValues, arrayFill, arrayBuffer, codecVars, varintVars,
                 loaderVars, deltaVars, callVars, loadVars, pickVars, patchVars>>

ArrayNext ==
  \/ EncodeArray
  \/ DecodeArray

ArraySpec == ArrayInit /\ [][ArrayNext]_vars

\* The varint of the element count followed by the zigzag varint of every
\* element, nothing between them.
RECURSIVE ArrayLayout(_)
ArrayLayout(values) ==
  IF values = << >> THEN << >>
  ELSE VarintLayout(ZigzagCode(values[1])) \o ArrayLayout(Tail(values))

\* C24: the buffer encodeArray returns is the varint of the element count
\* followed by the zigzag varint of each element with no byte between them,
\* and decodeArray returns from it the array that was encoded.
C24_ArrayRoundTrip ==
  /\ arrayPc \in {"encoded", "decoded", "decodeFailed"}
       => arrayBuffer = VarintLayout(Len(arrayValues)) \o ArrayLayout(arrayValues)
  /\ arrayPc # "decodeFailed"
  /\ arrayPc = "decoded" => arrayDecoded = arrayValues

\* ------------------------------------------------------------------------
\* world.loadMap under the patches of MapCompression and of its FastLoader
\* ------------------------------------------------------------------------

\* The functions world.loadMap can hold: the host's own loader ("host"; a
\* bound copy of it behaves the same), the wrapper installed by the
\* MonkeyPatchLoader of MapCompression ("mc") and the wrapper installed by
\* the MonkeyPatchLoader of the FastLoader ("fl").  A patcher's
\* originalLoadMap is one of them or "null"; mcOriginal is "none" when the
\* constructor created no patcher.
PatchOptions ==
  [monkeyPatching : BOOLEAN,
   method : {"undefined", "default", "hybrid", "chunks", "monkeypatch"},
   simple : BOOLEAN]

\* loading.method after the constructor's defaults.
LoadingMethod(options) ==
  IF options.method # "undefined" THEN options.method
  ELSE IF options.simple THEN "default" ELSE "hybrid"

\* MonkeyPatchLoader.patch() of the patcher `who`, on the state
\* [cur, mc, fl] of world.loadMap and the two saved originals.
patchBy(st, who) ==
  IF st[who] # "null" THEN st
  ELSE [st EXCEPT ![who] = st.cur, !.cur = who]

\* MonkeyPatchLoader.unpatch() of the patcher `who`.
unpatchBy(st, who) ==
  IF st[who] = "null" THEN st
  ELSE [st EXCEPT !.cur = st[who], ![who] = "null"]

\* The patches FastLoader.load applies before it loads, by method.
PatchesOfLoad(st, options) ==
  CASE LoadingMethod(options) = "monkeypatch" -> patchBy(st, "fl")
    [] LoadingMethod(options) = "hybrid" ->
         (IF options.monkeyPatching THEN patchBy(st, "fl") ELSE st)
    [] OTHER -> st

\* A call f(given) of a function world.loadMap can hold: a wrapper hands a
\* compressed map to its original decompressed and any other value as it
\* is, and throws when its patcher's originalLoadMap is null.
RECURSIVE CallLoadMap(_, _, _)
CallLoadMap(f, given, st) ==
  IF f = "host" THEN [threw |-> FALSE, ran |-> "host", passed |-> given]
  ELSE IF st[f] = "null" THEN [threw |-> TRUE, ran |-> "none", passed |-> "none"]
  ELSE CallLoadMap(st[f], IF given = "compressed" THEN "decompressed" ELSE given, st)

PatchState == [cur |-> currentLoadMap, mc |-> mcOriginal, fl |-> flOriginal]

SetPatchState(st) ==
  /\ currentLoadMap' = st.cur
  /\ mcOriginal' = st.mc
  /\ flOriginal' = st.fl

PatchInit ==
  /\ CodecIdle
  /\ VarintIdle
  /\ LoaderIdle
  /\ DeltaIdle
  /\ CallsIdle
  /\ LoadIdle
  /\ ArrayIdle /\ PickIdle
  /\ patchOptions \in PatchOptions
  /\ currentLoadMap = "host"
  /\ mcOriginal = "none"
  /\ flOriginal = "null"
  /\ patchCall = NoPatchCall
  /\ patchPc = "new"

\* new MapCompression(world, options): the FastLoader gets its own
\* MonkeyPatchLoader; MapCompression creates one and patches when monkey
\* patching is asked for.
Construct ==
  /\ patchPc = "new"
  /\ IF patchOptions.monkeyPatching
     THEN SetPatchState(patchBy([PatchState EXCEPT !.mc = "null"], "mc"))
     ELSE UNCHANGED <<currentLoadMap, mcOriginal, flOriginal>>
  /\ patchPc' = "ready"
  /\ UNCHANGED <<patchOptions, patchCall, codecVars, varintVars, loaderVars,
                 deltaVars, callVars, loadVars, arrayVars, pickVars>>

\* mapCompression.loadMap(mapData): world.loadMap in simple mode, else
\* fastLoader.load.
PatchedLoadMap ==
  /\ patchPc \in {"ready", "cleaned", "called"}
  /\ IF patchOptions.simple
     THEN UNCHANGED <<currentLoadMap, mcOriginal, flOriginal>>
     ELSE SetPatchState(PatchesOfLoad(PatchState, patchOptions))
  /\ patchCall' = NoPatchCall
  /\ patchPc' = "ready"
  /\ UNCHANGED <<patchOptions, codecVars, varintVars, loaderVars,
                 deltaVars, callVars, loadVars, arrayVars, pickVars>>

\* mapCompression.autoLoad(): only the step that loads the compressed
\* cache goes through fastLoader.load; the chunks step and the step that
\* loads the original apply no patch.
PatchedAutoLoad(step) ==
  /\ patchPc \in {"ready", "cleaned", "called"}
  /\ IF step = "compressed"
     THEN SetPatchState(PatchesOfLoad(PatchState, patchOptions))
     ELSE UNCHANGED <<currentLoadMap, mcOriginal, flOriginal>>
  /\ patchCall' = NoPatchCall
  /\ patchPc' = "ready"
  /\ UNCHANGED <<patchOptions, codecVars, varintVars, loaderVars,
                 deltaVars, callVars, loadVars, arrayVars, pickVars>>

\* mapCompression.cleanup(): this.monkeyPatcher.unpatch() when there is
\* one, then this.fastLoader.cleanup(), which unpatches the FastLoader's.
Cleanup ==
  /\ patchPc = "ready"
  /\ SetPatchState(unpatchBy(IF mcOriginal = "none" THEN PatchState
                             ELSE unpatchBy(PatchState, "mc"), "fl"))
  /\ patchCall' = NoPatchCall
  /\ patchPc' = "cleaned"
  /\ UNCHANGED <<patchOptions, codecVars, varintVars, loaderVars,
                 deltaVars, callVars, loadVars, arrayVars, pickVars>>

\* world.loadMap(given) after cleanup()
CallWorldLoadMap(given) ==
  /\ patchPc = "cleaned"
  /\ \E r \in {CallLoadMap(currentLoadMap, given, PatchState)} :
        patchCall' = [made |-> TRUE, threw |-> r.threw, ran |-> r.ran,
                      given |-> given, passed |-> r.passed]
  /\ patchPc' = "called"
  /\ UNCHANGED <<patchOptions, currentLoadMap, mcOriginal, flOriginal, codecVars,
                 varintVars, loaderVars, deltaVars, callVars, loadVars, arrayVars,
                 pickVars>>

PatchNext ==
  \/ Construct
  \/ PatchedLoadMap
  \/ \E step \in {"chunks", "compressed", "original"} : PatchedAutoLoad(step)
  \/ Cleanup
  \/ \E given \in {"map", "compressed"} : CallWorldLoadMap(given)

PatchSpec == PatchInit /\ [][PatchNext]_vars

\* C21: after cleanup() world.loadMap is the host's loader, and a call of
\* it runs the host's loader with the argument it was given.
C21_CleanupRestoresHostLoader ==
  /\ patchPc \in {"cleaned", "called"} => currentLoadMap = "host"
  /\ patchPc = "called"
       => /\ ~patchCall.threw
          /\ patchCall.ran = "host"
          /\ patchCall.passed = patchCall.given

\* ------------------------------------------------------------------------
\* The loading method of a map, by its block count
\* ------------------------------------------------------------------------

\* Block counts on both sides of the two thresholds.
PickCounts ==
  {0, 1, HybridThreshold - 1, HybridThreshold, HybridThreshold + 1,
   ChunksThreshold, ChunksThreshold + 1}

\* The options of the caller; method "undefined" is a caller that gives no
\* loading.method.  `through` says whether the map is loaded through
\* MapCompression.loadMap or through a FastLoader of its own.
Picks ==
  [blockCount : PickCounts,
   through : {"MapCompression", "FastLoader"},
   method : {"undefined", "default", "hybrid", "chunks", "monkeypatch"},
   optimizationEnabled : {"undefined", "false"},
   useChunks : {"undefined", "false"},
   monkeyPatch : BOOLEAN,
   simple : BOOLEAN]

\* The method a map is loaded with.  MapCompression's constructor puts
\* 'hybrid' (or 'default' in simple mode) where the caller gave no method,
\* and in simple mode loadMap calls world.loadMap itself; a FastLoader
\* handed the caller's options takes the method from them or from
\* determineOptimalMethod.
PickedMethod(p) ==
  IF p.through = "MapCompression"
  THEN (IF p.simple THEN "default" ELSE LoadingMethod(p))
  ELSE IF p.method # "undefined" THEN p.method
  ELSE determineOptimalMethodOf(p.blockCount,
         [optimizationEnabled |-> p.optimizationEnabled # "false",
          useChunks |-> p.useChunks, monkeyPatch |-> p.monkeyPatch])

PickInit ==
  /\ CodecIdle
  /\ VarintIdle
  /\ LoaderIdle
  /\ DeltaIdle
  /\ CallsIdle
  /\ LoadIdle
  /\ ArrayIdle /\ PatchIdle
  /\ pick \in Picks
  /\ pickMethod = "none"
  /\ pickPc = "start"

\* const method = this.options.loading?.method ||
\*                this.determineOptimalMethod(decompressedData)
PickLoadingMethod ==
  /\ pickPc = "start"
  /\ pickMethod' = PickedMethod(pick)
  /\ pickPc' = "picked"
  /\ UNCHANGED <<pick, codecVars, varintVars, loaderVars, deltaVars, callVars,
                 loadVars, arrayVars, patchVars>>

PickNext == PickLoadingMethod

PickSpec == PickInit /\ [][PickNext]_vars

\* C22: for a caller that gives no loading.method, a map of more than
\* 1,000,000 blocks is loaded with chunks, one of more than 100,000 with
\* hybrid, and one of fewer than 100,000 with monkeypatch.
C22_MethodFromBlockCount ==
  (pickPc = "picked" /\ pick.method = "undefined")
  => /\ pick.blockCount > ChunksThreshold => pickMethod = "chunks"
     /\ (pick.blockCount > HybridThreshold /\ pick.blockCount <= ChunksThreshold)
          => pickMethod = "hybrid"
     /\ pick.blockCount < HybridThreshold => pickMethod = "monkeypatch"

====
